---- MODULE Spec2Model ----
(***************************************************************************)
(* better_any / better_typeid: type ids for types with a single lifetime,  *)
(* and the downcasts built on them.                                        *)
(*                                                                         *)
(* A type is a term <<head, lifetime, args>>: head is the name of the type *)
(* constructor, lifetime is its lifetime argument ("-" when the            *)
(* constructor has none) and args is the tuple of its type arguments.      *)
(* A TypeId is <<"TypeId", t>> for a 'static type t: std's TypeId::of is   *)
(* injective on 'static types and is defined on nothing else.              *)
(***************************************************************************)
EXTENDS Integers, Sequences, FiniteSets, TLC

\* ------------------------------------------------------------------ bounds

\* nesting depth of the type terms of the tag specification
MaxDepth == 1
\* contents of a value: 0..MaxVal
MaxVal == 1
\* addresses an allocation can have: 1..NumAddrs
NumAddrs == 1

\* ------------------------------------------------------------------ crates

Crates == {"better_any", "better_typeid"}

Static == "'static"

Lifetimes == {Static, "'a", "'b"}

\* 'x: 'y, the lifetimes nest as 'static: 'a: 'b
Outlives(x, y) ==
    \/ x = Static
    \/ x = y
    \/ x = "'a" /\ y = "'b"

\* ------------------------------------------------------------------ types

Ty(head, lt, args) == <<head, lt, args>>

HeadOf(t) == t[1]

LtOf(t) == t[2]

ArgsOf(t) == t[3]

\* non-generic types: S1 opts in to Tid, i32 is a foreign type (Any only)
PlainHeads == {"S1", "i32"}

\* struct S2<'a>(&'a str)
LtHeads == {"S2"}

\* the std wrappers the crates implement TidAble for, one type parameter each
StdHeads == {"Box", "Rc", "Arc", "RefCell", "Cell", "Mutex", "RwLock", "Option", "Vec"}

\* & and &mut, whose pointee must be 'static
RefHeads == {"Ref", "RefMut"}

\* user generics: S3<'a, T>, S4<T>, S7<'a, T: 'static>, S8<T, X: 'static>
UserHeads == {"S3", "S4", "S7", "S8"}

\* the crate-private wrapper
PrivateHeads == {"TypeIdAdjuster"}

\* dyn Tid<'a> + 'a
DynHeads == {"dynTid"}

BaseHeads == PlainHeads \cup LtHeads \cup DynHeads

Heads ==
    PlainHeads \cup LtHeads \cup StdHeads \cup RefHeads \cup UserHeads
        \cup {"Result"} \cup PrivateHeads \cup DynHeads

\* does the type constructor take a lifetime argument
HasLt(head) == head \in LtHeads \cup RefHeads \cup {"S3", "S7"} \cup DynHeads

\* the type parameters of a declaration, in declaration order: "tid" for a
\* parameter that gets the TidAble bound, "static" for one declared `X: 'static`
Params(head) ==
    CASE head \in StdHeads -> <<"tid">>
      [] head \in RefHeads -> <<"static">>
      [] head = "S3" -> <<"tid">>
      [] head = "S4" -> <<"tid">>
      [] head = "S7" -> <<"static">>
      [] head = "S8" -> <<"tid", "static">>
      [] head = "Result" -> <<"tid", "tid">>
      [] head = "TypeIdAdjuster" -> <<"static">>
      [] OTHER -> <<>>

\* generics.lt_token is present: the declaration has a <..> list
HasGenerics(head) == HasLt(head) \/ Params(head) # <<>>

\* T: Sized
IsSized(t) == HeadOf(t) \notin DynHeads

RECURSIVE IsStatic(_)
\* T: 'static
IsStatic(t) ==
    /\ LtOf(t) \in {"-", Static}
    /\ \A i \in 1..Len(ArgsOf(t)) : IsStatic(ArgsOf(t)[i])

\* T: Any
IsAny(t) == IsStatic(t) /\ IsSized(t)

RECURSIVE Erase(_)
\* the type with every lifetime argument erased
Erase(t) ==
    Ty(HeadOf(t), IF LtOf(t) = "-" THEN "-" ELSE "'_",
       [i \in 1..Len(ArgsOf(t)) |-> Erase(ArgsOf(t)[i])])

\* ------------------------------------------------------------------ opt-in

\* how a crate implements TidAble for a type constructor:
\*   "ident"    tid!(S) / type_id!(S)           Static = S
\*   "ident_lt" tid!(S<'a>) / type_id!(S<'a>)   Static = S<'static>
\*   "impl"     tid!{ impl<'a, ..> TidAble<'a> for .. }
\*   "derive"   #[derive(Tid)] / #[impl_tid]
\*   "stdimpl"  stdimpl!(Box)
\*   "ref"      impl TidAble<'a> for &'a T
\*   "none"     no implementation
Rule(crate, head) ==
    IF crate = "better_any"
    THEN CASE head = "S1" -> "ident"
           [] head = "S2" -> "ident_lt"
           [] head = "i32" -> "none"
           [] OTHER -> "impl"
    ELSE CASE head \in {"S1", "S2", "S3", "S4", "S7", "S8"} -> "derive"
           [] head \in {"Option", "Vec", "Result", "dynTid"} -> "derive"
           [] head \in StdHeads -> "stdimpl"
           [] head \in RefHeads -> "ref"
           [] OTHER -> "none"

\* the characters char::is_ascii_alphanumeric accepts
Alnum ==
    {"a", "b", "c", "d", "e", "f", "g", "h", "i", "j", "k", "l", "m",
     "n", "o", "p", "q", "r", "s", "t", "u", "v", "w", "x", "y", "z",
     "A", "B", "C", "D", "E", "F", "G", "H", "I", "J", "K", "L", "M",
     "N", "O", "P", "Q", "R", "S", "T", "U", "V", "W", "X", "Y", "Z",
     "0", "1", "2", "3", "4", "5", "6", "7", "8", "9"}

\* type_.to_token_stream().to_string() of the declarations the derive sees,
\* one character per element
TypeTokens(head) ==
    CASE head = "S1" -> <<"S", "1">>
      [] head = "S2" -> <<"S", "2", " ", "<", " ", "'", "a", " ", ">">>
      [] head = "S3" -> <<"S", "3", " ", "<", " ", "'", "a", " ", ",", " ", "T", " ", ">">>
      [] head = "S4" -> <<"S", "4", " ", "<", " ", "T", " ", ">">>
      [] head = "S7" -> <<"S", "7", " ", "<", " ", "'", "a", " ", ",", " ", "T", " ", ">">>
      [] head = "S8" -> <<"S", "8", " ", "<", " ", "T", " ", ",", " ", "X", " ", ">">>
      [] head = "Option" -> <<"O", "p", "t", "i", "o", "n", " ", "<", " ", "T", " ", ">">>
      [] head = "Vec" -> <<"V", "e", "c", " ", "<", " ", "T", " ", ">">>
      [] head = "Result" ->
            <<"R", "e", "s", "u", "l", "t", " ", "<", " ", "T", " ", ",", " ", "E", " ", ">">>
      [] head = "dynTid" ->
            <<"d", "y", "n", " ", "T", "i", "d", " ", "<", " ", "'", "a", " ", ">",
              " ", "+", " ", "'", "a">>
      [] OTHER -> <<>>

RECURSIVE FilterAlnum(_)
\* .chars().filter(char::is_ascii_alphanumeric).collect::<String>()
FilterAlnum(chars) ==
    IF chars = <<>> THEN ""
    ELSE (IF Head(chars) \in Alnum THEN Head(chars) ELSE "") \o FilterAlnum(Tail(chars))

\* C17 mutant: the marker struct is named without the type's name
temp_struct_ident_fixed(head) == "__should_never_exist"

\* format_ident!("__{}_should_never_exist", name)
temp_struct_ident(head) ==
    "__" \o FilterAlnum(TypeTokens(head)) \o "_should_never_exist"

\* C1 mutant: one marker struct shared by every tid! invocation
SharedTypeIdGenerator(head) == "__TypeIdGenerator"

\* the marker struct tid! declares inside its own `const _` block: one type
\* per invocation, named by the invocation it belongs to
TypeIdGenerator(head) == "__TypeIdGenerator in tid!(" \o head \o ")"

\* C16 mutant: the marker struct takes none of the parameters
ParamsOf_none(head, class) == <<>>

\* the indices of the parameters of one class, in declaration order
ParamsOf(head, class) ==
    SelectSeq([i \in 1..Len(Params(head)) |-> i], LAMBDA i : Params(head)[i] = class)

\* C15 mutant: Static is the type itself, lifetime included
StaticOf_self(crate, t) == t

RECURSIVE StaticOf(_, _)
\* <T as TidAble>::Static
StaticOf(crate, t) ==
    LET head == HeadOf(t)
        rule == Rule(crate, head)
        args == ArgsOf(t)
        \* $param::Static / #ident::Static, or the parameter itself when pinned
        sub(i) == IF Params(head)[i] = "static" THEN args[i] ELSE StaticOf(crate, args[i])
        bound == ParamsOf(head, "tid")
        pinned == ParamsOf(head, "static")
    IN  CASE rule = "ident" -> t
          [] rule = "ident_lt" -> Ty(head, Static, <<>>)
          [] rule = "impl" ->
                \* __TypeIdGenerator<'static $(,$param::Static)* $(,$static_param)*>
                Ty(TypeIdGenerator(head), Static,
                   [i \in 1..Len(bound) |-> sub(bound[i])]
                       \o [i \in 1..Len(pinned) |-> sub(pinned[i])])
          [] rule = "derive" ->
                IF ~HasGenerics(head)
                THEN t
                ELSE Ty(temp_struct_ident(head), "-", [i \in 1..Len(args) |-> sub(i)])
          [] rule = "stdimpl" -> Ty(head, "-", <<StaticOf(crate, args[1])>>)
          [] rule = "ref" -> Ty(head, Static, args)
          [] OTHER -> t

\* C5 mutant: `impl<'a, 'x> TidAble<'a> for S<'x>`, the lifetimes are unrelated
LtAny(t, a) == TRUE

\* `impl<'a> TidAble<'a> for S<'a>`: the lifetime of the trait is the lifetime
\* argument of the type
LtMatches(t, a) == HasLt(HeadOf(t)) => LtOf(t) = a

RECURSIVE TidAble(_, _, _)
\* T: TidAble<'a>, read off the impl headers
TidAble(crate, t, a) ==
    LET head == HeadOf(t)
        rule == Rule(crate, head)
        args == ArgsOf(t)
    IN  /\ rule # "none"
        /\ Len(args) = Len(Params(head))
        /\ (LtOf(t) = "-") = ~HasLt(head)
        /\ LtMatches(t, a)
        /\ \A i \in 1..Len(args) :
              IF Params(head)[i] = "static"
              THEN /\ IsStatic(args[i])
                   /\ (IsSized(args[i]) \/ head = "TypeIdAdjuster")
              ELSE /\ TidAble(crate, args[i], a)
                   /\ (IsSized(args[i]) \/ head = "Box" \/ rule = "stdimpl")

\* std::any::TypeId::of::<T>()
TypeIdOf(t) == <<"TypeId", t>>

\* fn adjust_id<T: ?Sized + Any>() -> TypeId
\* C8 mutant: better_typeid's adjust_id without the private wrapper
adjust_id_plain(crate, t) == TypeIdOf(t)

adjust_id(crate, t) ==
    IF crate = "better_any"
    THEN TypeIdOf(t)
    ELSE TypeIdOf(Ty("TypeIdAdjuster", "-", <<t>>))

\* <T as Tid>::id() and Tid::self_id of the blanket impl
id(crate, t) == adjust_id(crate, StaticOf(crate, t))

\* pub fn typeid_of<'a, T: ?Sized + TidAble<'a>>() -> TypeId
typeid_of(crate, t) == adjust_id(crate, StaticOf(crate, t))

\* ------------------------------------------------------------------ universe

\* the type constructors used below the outermost level of a deeper term
NestHeads == {"Box", "S3"}

\* the terms head<lt, args> with args drawn from pool
Apply(head, pool) ==
    {Ty(head, lt, args) :
        lt \in (IF HasLt(head) THEN Lifetimes ELSE {"-"}),
        args \in [1..Len(Params(head)) -> pool]}

BaseTypes == UNION {Apply(head, {}) : head \in PlainHeads \cup LtHeads \cup DynHeads}

RECURSIVE TypesUpTo(_)
\* the type terms of nesting depth at most d; two-parameter constructors take
\* base types only
TypesUpTo(d) ==
    IF d = 0 THEN BaseTypes
    ELSE LET pool == TypesUpTo(d - 1)
             heads == IF d = 1 THEN Heads \ {"Result", "S8"} ELSE NestHeads
         IN  pool
               \cup UNION {Apply(head, pool) : head \in heads \ BaseHeads}
               \cup (IF d = 1 THEN Apply("Result", BaseTypes) \cup Apply("S8", BaseTypes)
                     ELSE {})

\* T: Tid<'a> for some 'a
IsTid(crate, t) == \E a \in Lifetimes : TidAble(crate, t, a)

\* the types of the tag specification
TagTypes(crate) == {t \in TypesUpTo(MaxDepth) : IsTid(crate, t)}

\* no type, no type id
NoType == Ty("-", "-", <<>>)

NoId == <<"none", NoType>>

\* ------------------------------------------------------------------ state

VARIABLES
    crate,  \* the crate in use: better_any or better_typeid
    tq,     \* a tag query: two types and the type ids computed for them
    obj,    \* the value behind the handle: its type, address, contents, drops
    h,      \* the handle the caller holds
    res,    \* what the last operation returned
    mac,    \* a declaration handed to an opt-in macro, and what the macro emitted
    fp      \* a shared or wrapped allocation, the pointers to it and the last
            \* result of a downcast of such a pointer

vars == <<crate, tq, obj, h, res, mac, fp>>

NoAddr == 0

\* the one allocation of a run lives at one of these addresses
Addrs == 1..NumAddrs

Vals == 0..MaxVal

\* origin: how the handle to the value was made, "direct" (unsizing) or
\* "from" (the From conversions for Any types)
NoObj == [ty |-> NoType, addr |-> NoAddr, val |-> 0, drops |-> 0, origin |-> "-"]

\* what a read through a pointer to addr finds: the contents of the value if
\* it lives there, -1 otherwise
Read(o, addr) == IF addr = o.addr /\ addr # NoAddr /\ o.drops = 0 THEN o.val ELSE -1

\* kind:   "ref" &, "mut" &mut, "box", "rc", "arc", or "val" (a sized value
\*         held by generic code, H: Tid<'a>)
\* tobj:   the pointee type the caller sees: "dynTid", "dynTrait" (a trait
\*         with Tid as supertrait) or "sized"
\* vt:     the concrete type the vtable (or the monomorphised call) belongs to
\* vtrait: the trait whose vtable the pointer carries, "Tid" or "Any"
\* lt:     'a of Tid<'a>;  borrow: 'b of &'b / &'b mut, "-" for an owner
NoHandle ==
    [kind |-> "-", tobj |-> "-", vt |-> NoType, vtrait |-> "-", lt |-> "-",
     borrow |-> "-", addr |-> NoAddr, live |-> FALSE]

\* op: the operation; target: its type argument T; ok: is() returned true,
\* or the downcast returned Some / Ok; kind, ty, addr, borrow: the pointer
\* returned on success; back: the handle returned in Err
NoRes ==
    [op |-> "-", target |-> NoType, ok |-> FALSE, kind |-> "-", ty |-> NoType,
     addr |-> NoAddr, borrow |-> "-", back |-> NoHandle]

\* no declaration
\* macro: tid, type_id, derive or impl_tid; form: what it is applied to, a
\* type signature, a struct or an impl block; name: the type's identifier;
\* list: the item has a generics list <..>; lts, tps: the lifetimes and type
\* parameters of that list; shape: the type as written, "bare" (S),
\* "types" (S<T, ..>) or "full" (S<'a, T, ..>); trait: the trait an impl
\* header names, "-" when the item is no impl header
NoDecl ==
    [macro |-> "-", form |-> "-", name |-> "-", list |-> FALSE, lts |-> <<>>,
     tps |-> <<>>, shape |-> "-", trait |-> "-"]

\* nothing emitted
\* ok: an implementation was emitted (err says why not); static: the head
\* of `type Static`, "Self" for the declared type itself, "Self<'static>" for
\* the type with its lifetime replaced, or the name of the marker struct;
\* args: the arguments of Static, <<P, "Static">> for P::Static and
\* <<P, "same">> for P; marker and mparams: the marker struct declared and
\* its parameters; lt: 'a of TidAble<'a>; params: the type parameters of the
\* impl with their bounds; path: the trait path
NoOut ==
    [ok |-> FALSE, err |-> "-", static |-> "-", args |-> <<>>, marker |-> "-",
     mparams |-> <<>>, lt |-> "-", params |-> <<>>, path |-> "-"]

NoMac == [decl |-> NoDecl, out |-> NoOut, done |-> FALSE]

\* no pointer
\* kind, tobj, vt, vtrait, lt, borrow, addr, live: as for a handle, with tobj
\* one of "dynAny", "dynDebugAny" (trait DebugAny: Debug + Any), "dynDebug",
\* "dynTid", "dynTest" (trait Test<'a> {}, dyn Test<'a> made TidAble by tid!)
\* for a fat pointer and "sized" for a thin one; wrap: the type around the
\* pointee, as in Arc<Mutex<dyn Any>>: "-", "RefCell", "Cell" or "Mutex";
\* ty: the pointee type of a thin pointer
NoPtr ==
    [kind |-> "-", tobj |-> "-", vt |-> NoType, vtrait |-> "-", lt |-> "-",
     borrow |-> "-", addr |-> NoAddr, live |-> FALSE, wrap |-> "-", ty |-> NoType]

\* no allocation
\* own: what made the allocation, "box", "rc", "arc" or "stack"; ty: the type
\* of the value; wrap: the wrapper the value sits in; val: its contents;
\* strong: the strong count of an Rc / Arc allocation; lock: "held" while
\* another party holds the Mutex or a RefCell borrow; freed: the value was
\* dropped and the memory released
NoAlloc ==
    [own |-> "-", ty |-> NoType, wrap |-> "-", addr |-> NoAddr, val |-> 0,
     strong |-> 0, lock |-> "free", freed |-> FALSE]

\* op, target: the operation and its target pointer type; ok: it returned
\* Ok / Some; out: the pointer in Ok; back: the pointer in Err;
\* done: the call returned; temp: the temporary Option of downcast_move as
\* the function leaves it
NoTemp == [some |-> FALSE, value |-> NoPtr]

NoPRes ==
    [op |-> "-", target |-> NoPtr, ok |-> FALSE, out |-> NoPtr, back |-> NoPtr,
     done |-> FALSE, temp |-> NoTemp]

\* al: the allocation; p: the pointer the caller holds; res: the result of
\* the last downcast; clones: the other Rc / Arc clones alive; seen: what
\* the tag queries returned so far, <<vtable, type, id>> each; ub: a pointer
\* that is not what its type says was dropped (undefined behaviour)
NoFp ==
    [al |-> NoAlloc, p |-> NoPtr, res |-> NoPRes, clones |-> 0, seen |-> {}, ub |-> FALSE]

QuietTags ==
    [t |-> NoType, u |-> NoType, id_t |-> NoId, id_u |-> NoId, any_t |-> NoId,
     done |-> FALSE]

\* ------------------------------------------------------------------ tags

\* two types are picked, nothing is computed yet
TagInit ==
    /\ crate \in Crates
    /\ \E t \in TagTypes(crate), u \in TagTypes(crate) :
          tq = [QuietTags EXCEPT !.t = t, !.u = u]
    /\ obj = NoObj
    /\ h = NoHandle
    /\ res = NoRes
    /\ mac = NoMac
    /\ fp = NoFp

\* typeid_of::<T>(), typeid_of::<U>() and, where T: Any, TypeId::of::<T>()
QueryTags ==
    /\ ~tq.done
    /\ tq' = [tq EXCEPT !.id_t = typeid_of(crate, tq.t),
                        !.id_u = typeid_of(crate, tq.u),
                        !.any_t = IF IsAny(tq.t) THEN TypeIdOf(tq.t) ELSE NoId,
                        !.done = TRUE]
    /\ UNCHANGED <<fp, mac, crate, obj, h, res>>

TagNext == QueryTags

TagSpec == TagInit /\ [][TagNext]_vars

\* ------------------------------------------------------------------ handles

\* the shorter of two lifetimes
MinLt(x, y) == IF Outlives(x, y) THEN y ELSE x

RECURSIVE ScopeOf(_)
\* the region a value of type t is valid for: the shortest lifetime in t
ScopeOf(t) ==
    LET own == IF LtOf(t) = "-" THEN Static ELSE LtOf(t)
        RECURSIVE Over(_, _)
        Over(i, acc) ==
            IF i > Len(ArgsOf(t)) THEN acc
            ELSE Over(i + 1, MinLt(acc, ScopeOf(ArgsOf(t)[i])))
    IN  Over(1, own)

\* struct TypeIdAdjuster<T: ?Sized>
TypeIdAdjuster(t) == Ty("TypeIdAdjuster", "-", <<t>>)

\* the type constructors of the values put behind a handle
HandleHeads == {"Box", "Ref", "S3"}

\* the sized types user code names in the handle specification, as the type
\* of a value or as the target of a downcast: the plain types and one level
\* of HandleHeads over them (the private wrapper cannot be named)
UserTypes ==
    LET plain == UNION {Apply(head, {}) : head \in PlainHeads \cup LtHeads}
    IN  plain \cup UNION {Apply(head, plain) : head \in HandleHeads}

\* per crate and lifetime 'a, the types T: Tid<'a> among UserTypes
TidTypes ==
    [cr \in Crates |-> [a \in Lifetimes |-> {t \in UserTypes : TidAble(cr, t, a)}]]

\* the types T: Any among UserTypes
AnyTypes == {t \in UserTypes : IsAny(t)}

\* `x as &dyn Tid` and the like: the unsizing coercion of a pointer to a value
\* of type t, or the value itself in generic code
Unsize(kind, tobj, t, a, b, addr) ==
    [kind |-> kind, tobj |-> tobj, vt |-> t, vtrait |-> "Tid", lt |-> a,
     borrow |-> b, addr |-> addr, live |-> TRUE]

\* C6 mutant: From unsizes the pointer to T itself
From_unsized(cr, kind, t, a, b, addr) == Unsize(kind, "dynTid", t, a, b, addr)

\* impl From<Box<T>> / From<&T> / From<&mut T> for Box/&/&mut (dyn Tid<'a> + 'a)
\* better_any: the pointer is cast to TypeIdAdjuster<T> and then unsized;
\* better_typeid: the dyn Any pointer is transmuted, it keeps Any's vtable
From(cr, kind, t, a, b, addr) ==
    IF cr = "better_any"
    THEN [kind |-> kind, tobj |-> "dynTid", vt |-> TypeIdAdjuster(t), vtrait |-> "Tid",
          lt |-> a, borrow |-> b, addr |-> addr, live |-> TRUE]
    ELSE [kind |-> kind, tobj |-> "dynTid", vt |-> t, vtrait |-> "Any",
          lt |-> a, borrow |-> b, addr |-> addr, live |-> TRUE]

\* C3 mutant: self_id answers with the plain TypeId of the concrete type
self_id_plain(cr, hd) == TypeIdOf(hd.vt)

\* C25 mutant: the tag is computed from the contents of the value
self_id_of_contents(cr, hd) == <<"TypeId", hd.vt, fp.al.val>>

\* C30 mutant: the bridge of better_typeid answers with the tag of a direct
\* handle, not through Any's vtable
self_id_of_static(cr, hd) == adjust_id(cr, StaticOf(cr, hd.vt))

\* Tid::self_id through the handle: the blanket impl of the concrete type, or,
\* for a transmuted dyn Any, the one method of Any's vtable, Any::type_id
self_id(cr, hd) ==
    IF hd.vtrait = "Any"
    THEN TypeIdOf(hd.vt)
    ELSE adjust_id(cr, StaticOf(cr, hd.vt))

\* C2 mutant: the handle's id is compared with TypeId::of::<T>(), not T::id()
is_type_id_of(cr, hd, t) == self_id(cr, hd) = TypeIdOf(t)

\* TidExt::is
is(cr, hd, t) == self_id(cr, hd) = id(cr, t)

\* AnyExt / Option: the shapes of what a downcast returns
Some(kind, t, addr, b) ==
    [ok |-> TRUE, kind |-> kind, ty |-> t, addr |-> addr, borrow |-> b, back |-> NoHandle]

None == [ok |-> FALSE, kind |-> "-", ty |-> NoType, addr |-> NoAddr, borrow |-> "-",
         back |-> NoHandle]

\* C10 mutant: the handle does not come back
Err_lost(hd) == None

Err(hd) == [None EXCEPT !.back = hd]

\* C4 mutant: the address of the local `self` reference is cast, not self
downcast_ref_of_local(cr, hd, b, t) ==
    IF is(cr, hd, t) THEN Some("ref", t, hd.addr + 1, b) ELSE None

\* TidExt::downcast_ref, b is the lifetime of &'b self
downcast_ref(cr, hd, b, t) ==
    IF is(cr, hd, t) THEN Some("ref", t, hd.addr, b) ELSE None

\* TidExt::downcast_mut
downcast_mut(cr, hd, b, t) ==
    IF is(cr, hd, t) THEN Some("mut", t, hd.addr, b) ELSE None

\* C11 mutant: downcast_rc rebuilds the pointer as a Box
downcast_rc_as_box(cr, hd, t) ==
    IF is(cr, hd, t) THEN Some("box", t, hd.addr, "-") ELSE Err(hd)

\* TidExt::downcast_rc
downcast_rc(cr, hd, t) ==
    IF is(cr, hd, t) THEN Some("rc", t, hd.addr, "-") ELSE Err(hd)

\* TidExt::downcast_arc
downcast_arc(cr, hd, t) ==
    IF is(cr, hd, t) THEN Some("arc", t, hd.addr, "-") ELSE Err(hd)

\* TidExt::downcast_box
downcast_box(cr, hd, t) ==
    IF is(cr, hd, t) THEN Some("box", t, hd.addr, "-") ELSE Err(hd)

\* C13 mutant: downcast_move without the is::<T>() test
downcast_move_unchecked(cr, hd, t) == Some("val", t, hd.addr, "-")

\* TidExt::downcast_move
downcast_move(cr, hd, t) ==
    IF is(cr, hd, t) THEN Some("val", t, hd.addr, "-") ELSE None

\* C7 mutant: downcast_any_ref compares with T::id()
downcast_any_ref_direct(cr, hd, b, t) == downcast_ref(cr, hd, b, t)

\* <dyn Tid>::downcast_any_ref
downcast_any_ref(cr, hd, b, t) ==
    IF cr = "better_any"
    THEN LET r == downcast_ref(cr, hd, b, TypeIdAdjuster(t))
         IN  IF r.ok THEN [r EXCEPT !.ty = t] ELSE r
    ELSE IF self_id(cr, hd) = TypeIdOf(t) THEN Some("ref", t, hd.addr, b) ELSE None

\* <dyn Tid>::downcast_any_mut
downcast_any_mut(cr, hd, b, t) ==
    IF cr = "better_any"
    THEN LET r == downcast_mut(cr, hd, b, TypeIdAdjuster(t))
         IN  IF r.ok THEN [r EXCEPT !.ty = t] ELSE r
    ELSE IF self_id(cr, hd) = TypeIdOf(t) THEN Some("mut", t, hd.addr, b) ELSE None

\* <dyn Tid>::downcast_any_box (better_any)
downcast_any_box(cr, hd, t) ==
    LET r == downcast_box(cr, hd, TypeIdAdjuster(t))
    IN  IF r.ok THEN [r EXCEPT !.ty = t] ELSE r

\* the result record of operation op with type argument t
Result(op, t, r) ==
    [op |-> op, target |-> t, ok |-> r.ok, kind |-> r.kind, ty |-> r.ty,
     addr |-> r.addr, borrow |-> r.borrow, back |-> r.back]

\* ------------------------------------------------------------------ actions

Init ==
    /\ crate \in Crates
    /\ tq = QuietTags
    /\ obj = NoObj
    /\ h = NoHandle
    /\ res = NoRes
    /\ mac = NoMac
    /\ fp = NoFp

Kinds == {"ref", "mut", "box", "rc", "arc", "val"}

Owners == {"box", "rc", "arc", "val"}

\* the borrows a handle of this kind can carry when its pointee is valid for 'a
Borrows(kind, a) ==
    IF kind \in {"ref", "mut"} THEN {b \in Lifetimes : Outlives(a, b)} ELSE {"-"}

\* a value of a Tid type is made and turned into a handle directly
CreateDirect ==
    /\ obj = NoObj
    /\ \E t \in UserTypes, a \in Lifetimes, kind \in Kinds, addr \in Addrs, v \in Vals :
          /\ t \in TidTypes[crate][a]
          /\ \E tobj \in (IF kind = "val" THEN {"sized"} ELSE {"dynTid", "dynTrait"}),
                b \in Borrows(kind, a) :
                h' = Unsize(kind, tobj, t, a, b, addr)
          /\ obj' = [ty |-> t, addr |-> addr, val |-> v, drops |-> 0, origin |-> "direct"]
    /\ UNCHANGED <<fp, mac, crate, tq, res>>

\* a value of an Any type is made and turned into a handle by From
CreateFrom ==
    /\ obj = NoObj
    /\ \E t \in AnyTypes, a \in Lifetimes, kind \in {"ref", "mut", "box"},
          addr \in Addrs, v \in Vals :
          /\ \E b \in Borrows(kind, a) : h' = From(crate, kind, t, a, b, addr)
          /\ obj' = [ty |-> t, addr |-> addr, val |-> v, drops |-> 0, origin |-> "from"]
    /\ UNCHANGED <<fp, mac, crate, tq, res>>

\* the lifetime of &self when a method is called on the handle: the
\* handle's own borrow, or a borrow local to the caller for a value it holds
SelfBorrow(hd) == IF hd.kind \in {"ref", "mut"} THEN hd.borrow ELSE "'b"

\* the caller holds a usable handle and no result of an earlier call
Ready == h.live /\ res = NoRes

\* h.is::<T>()
Is ==
    /\ Ready
    /\ crate = "better_any"
    /\ h.kind \in {"ref", "val"}
    /\ \E t \in TidTypes[crate][h.lt] :
          res' = [NoRes EXCEPT !.op = "is", !.target = t, !.ok = is(crate, h, t)]
    /\ UNCHANGED <<fp, mac, crate, tq, obj, h>>

\* h.downcast_ref::<T>()
DowncastRef ==
    /\ Ready
    /\ h.kind \in {"ref", "val"}
    /\ \E t \in TidTypes[crate][h.lt] :
          res' = Result("downcast_ref", t, downcast_ref(crate, h, SelfBorrow(h), t))
    /\ UNCHANGED <<fp, mac, crate, tq, obj, h>>

\* h.downcast_mut::<T>()
DowncastMut ==
    /\ Ready
    /\ h.kind \in {"mut", "val"}
    /\ \E t \in TidTypes[crate][h.lt] :
          res' = Result("downcast_mut", t, downcast_mut(crate, h, SelfBorrow(h), t))
    /\ UNCHANGED <<fp, mac, crate, tq, obj, h>>

\* C12 mutant: the handle stays usable after it was moved into the result
Owned_kept(op, t, r) ==
    /\ res' = Result(op, t, r)
    /\ h' = IF r.ok THEN h ELSE r.back
    /\ UNCHANGED <<fp, mac, crate, tq, obj>>

\* an owning handle is passed by value: it is moved into the result on
\* success and handed back in Err on failure
Owned(op, t, r) ==
    /\ res' = Result(op, t, r)
    /\ h' = IF r.ok THEN [h EXCEPT !.live = FALSE] ELSE r.back
    /\ UNCHANGED <<fp, mac, crate, tq, obj>>

\* h.downcast_box::<T>()
DowncastBox ==
    /\ Ready
    /\ h.kind = "box"
    /\ \E t \in TidTypes[crate][h.lt] :
          Owned("downcast_box", t, downcast_box(crate, h, t))

\* h.downcast_rc::<T>()
DowncastRc ==
    /\ Ready
    /\ h.kind = "rc"
    /\ \E t \in TidTypes[crate][h.lt] :
          Owned("downcast_rc", t, downcast_rc(crate, h, t))

\* h.downcast_arc::<T>()
DowncastArc ==
    /\ Ready
    /\ h.kind = "arc"
    /\ \E t \in TidTypes[crate][h.lt] :
          Owned("downcast_arc", t, downcast_arc(crate, h, t))

\* h.downcast_move::<T>(): self is moved in; on success it is wrapped in
\* MaybeUninit, which never drops it, and returned as T; on failure it goes
\* out of scope at the end of the call and is dropped
DowncastMove ==
    /\ Ready
    /\ crate = "better_any"
    /\ h.kind = "val"
    /\ \E t \in TidTypes[crate][h.lt] :
          LET r == downcast_move(crate, h, t)
          IN  /\ res' = Result("downcast_move", t, r)
              /\ obj' = IF r.ok THEN obj ELSE [obj EXCEPT !.drops = @ + 1]
    /\ h' = [h EXCEPT !.live = FALSE]
    /\ UNCHANGED <<fp, mac, crate, tq>>

\* h.downcast_any_ref::<T>()
DowncastAnyRef ==
    /\ Ready
    /\ h.tobj = "dynTid"
    /\ h.kind = "ref"
    /\ \E t \in AnyTypes :
          res' = Result("downcast_any_ref", t, downcast_any_ref(crate, h, SelfBorrow(h), t))
    /\ UNCHANGED <<fp, mac, crate, tq, obj, h>>

\* h.downcast_any_mut::<T>()
DowncastAnyMut ==
    /\ Ready
    /\ h.tobj = "dynTid"
    /\ h.kind = "mut"
    /\ \E t \in AnyTypes :
          res' = Result("downcast_any_mut", t, downcast_any_mut(crate, h, SelfBorrow(h), t))
    /\ UNCHANGED <<fp, mac, crate, tq, obj, h>>

\* h.downcast_any_box::<T>()
DowncastAnyBox ==
    /\ Ready
    /\ crate = "better_any"
    /\ h.tobj = "dynTid"
    /\ h.kind = "box"
    /\ \E t \in AnyTypes :
          Owned("downcast_any_box", t, downcast_any_box(crate, h, t))

\* the caller is done with the result: a returned reference ends its borrow,
\* a returned owner (Box, Rc, Arc or the moved value) is dropped, and the
\* handle that came back in Err stays with the caller
Release ==
    /\ res # NoRes
    /\ res' = NoRes
    /\ obj' = IF res.ok /\ res.kind \in Owners THEN [obj EXCEPT !.drops = @ + 1] ELSE obj
    /\ UNCHANGED <<fp, mac, crate, tq, h>>

\* the caller drops the owner it holds (the Box, Rc or Arc it made or got back
\* in Err, or the value itself): the destructor of the value runs
DropHandle ==
    /\ Ready
    /\ h.kind \in Owners
    /\ h' = [h EXCEPT !.live = FALSE]
    /\ obj' = [obj EXCEPT !.drops = @ + 1]
    /\ UNCHANGED <<fp, mac, crate, tq, res>>

Next ==
    \/ CreateDirect
    \/ CreateFrom
    \/ Is
    \/ DowncastRef
    \/ DowncastMut
    \/ DowncastBox
    \/ DowncastRc
    \/ DowncastArc
    \/ DowncastMove
    \/ DowncastAnyRef
    \/ DowncastAnyMut
    \/ DowncastAnyBox
    \/ DropHandle
    \/ Release

Spec == Init /\ [][Next]_vars

\* ------------------------------------------------------------------ macros

\* most type parameters of a declaration
MaxParams == 2

\* the names of the type parameters, by position
ParamIds == <<"T", "X", "Y", "Z">>

\* the lists of n type parameters: static: the parameter carries an inline
\* 'static bound; default: the type after `=`, or "none"
TypeParams(n) ==
    {tps \in [1..n -> [id : {ParamIds[i] : i \in 1..n}, static : BOOLEAN,
                       default : {"none", "S1"}]] :
        \A i \in 1..n : tps[i].id = ParamIds[i]}

\* the lifetime lists: none, <'a>, <'a, 'b>
LtLists == {<<>>, <<"a">>, <<"a", "b">>}

Names == {"S", "Sa"}

\* the traits an impl header can name: the two of the crate, or another one
Traits == {"TidAble", "Tid", "Trait"}

\* the macros a crate exports
Macros(cr) ==
    IF cr = "better_any" THEN {"tid", "derive", "impl_tid"}
    ELSE {"type_id", "derive", "impl_tid"}

\* the forms a macro is applied to
Forms(macro) ==
    CASE macro = "tid" -> {"type", "impl"}
      [] macro = "type_id" -> {"type"}
      [] macro = "derive" -> {"struct"}
      [] OTHER -> {"impl"}

\* the declarations handed to the macros of a crate
Decls(cr) ==
    LET tpl == UNION {TypeParams(n) : n \in 0..MaxParams}
    IN  {d \in [macro : Macros(cr), form : {"type", "struct", "impl"}, name : Names,
                list : BOOLEAN, lts : LtLists, tps : tpl,
                shape : {"bare", "types", "full"}, trait : Traits \cup {"-"}] :
            /\ d.form \in Forms(d.macro)
            /\ (d.form = "impl") = (d.trait \in Traits)
            /\ ~d.list => (d.lts = <<>> /\ d.tps = <<>> /\ d.shape = "bare")
            /\ d.list => (d.lts # <<>> \/ d.tps # <<>>)
            \* a struct or a type signature is written with all its parameters
            /\ (d.list /\ d.form # "impl") => d.shape = "full"
            /\ (d.shape = "bare" /\ d.form = "impl") => d.tps = <<>>}

\* the characters of an identifier
NameChars(name) == IF name = "Sa" THEN <<"S", "a">> ELSE <<name>>

RECURSIVE Join(_)
\* the items of a generics list, separated by " , "
Join(items) ==
    IF items = <<>> THEN <<>>
    ELSE IF Len(items) = 1 THEN items[1]
    ELSE items[1] \o <<" ", ",", " ">> \o Join(Tail(items))

\* type_.to_token_stream().to_string(): the type as written in the item
TypeChars(d) ==
    LET lts == IF d.shape = "full"
               THEN [i \in 1..Len(d.lts) |-> <<"'", d.lts[i]>>] ELSE <<>>
        tps == [i \in 1..Len(d.tps) |-> <<d.tps[i].id>>]
    IN  IF d.shape = "bare" THEN NameChars(d.name)
        ELSE NameChars(d.name) \o <<" ", "<", " ">> \o Join(lts \o tps) \o <<" ", ">">>

\* C21 mutant: the abort is lost and an implementation comes out
Rejected_emits(why) == [NoOut EXCEPT !.ok = TRUE, !.static = "Self"]

\* a build error: nothing is emitted
Rejected(why) == [NoOut EXCEPT !.err = why]

\* C18 mutant: the generics of the declared type are looked at, never taken
\* as absent
no_generics_never(d) == FALSE

\* create_impl: generics.lt_token.is_none()
no_generics(d) == ~d.list

\* C19 mutant: no bound is recognised as 'static
is_static_never(tp) == FALSE

\* is_static: bounds.iter().any(|it| is_static(it))
is_static(tp) == tp.static

\* C20 mutant: the default stays on the parameter
keep_default(tp) == tp

\* create_impl: `*default = None`
remove_default(tp) == [tp EXCEPT !.default = "none"]

\* create_impl: generics.lifetimes().count()
lifetime_count(d) == Len(d.lts)

\* create_impl: substitute_types, one entry per type parameter
substitute_types(d) ==
    [i \in 1..Len(d.tps) |->
        IF is_static(d.tps[i]) THEN <<d.tps[i].id, "same">> ELSE <<d.tps[i].id, "Static">>]

\* create_impl: the type parameters of the emitted impl, a TidAble predicate
\* pushed to the where clause for each parameter that is not 'static
impl_params(d) ==
    [i \in 1..Len(d.tps) |->
        [id |-> d.tps[i].id,
         static |-> d.tps[i].static,
         tidable |-> ~is_static(d.tps[i]),
         default |-> remove_default(d.tps[i]).default]]

\* create_impl: format_ident!("__{}_should_never_exist", name)
marker_ident(d) == "__" \o FilterAlnum(TypeChars(d)) \o "_should_never_exist"

\* fn create_impl(generics, type_, hlq)
create_impl(d) ==
    IF no_generics(d)
    THEN [NoOut EXCEPT !.ok = TRUE, !.static = "Self", !.marker = "none", !.lt = "a",
                       !.path = "::better_any::TidAble"]
    ELSE IF lifetime_count(d) > 1
    THEN Rejected("unimplemented: currently only single lifetime is supported")
    ELSE [NoOut EXCEPT !.ok = TRUE,
                       !.static = marker_ident(d),
                       !.args = substitute_types(d),
                       !.marker = marker_ident(d),
                       !.mparams = [i \in 1..Len(d.tps) |-> d.tps[i].id],
                       !.lt = IF d.lts = <<>> THEN "a" ELSE d.lts[1],
                       !.params = impl_params(d),
                       !.path = "::better_any::TidAble"]

\* C23 mutant: any trait passes
trait_any(d) == TRUE

\* impl_tid: trait_ != "Tid" && trait_ != "TidAble"; tid!: the inner arms
\* for Tid< > and TidAble< >
trait_supported(d) == d.trait \in {"Tid", "TidAble"}

\* fn impl_tid(_params, input)
impl_tid(d) ==
    IF ~trait_supported(d)
    THEN Rejected("supported only on implementations of Tid trait")
    ELSE create_impl(d)

\* tid! and type_id!: ($struct: ident) and ($struct: ident < $lt: lifetime >)
type_signature(d) ==
    IF ~d.list
    THEN [NoOut EXCEPT !.ok = TRUE, !.static = "Self", !.marker = "none", !.lt = "a",
                       !.path = "$crate::TidAble"]
    ELSE IF Len(d.lts) = 1 /\ d.tps = <<>>
    THEN [NoOut EXCEPT !.ok = TRUE, !.static = "Self<'static>", !.marker = "none",
                       !.lt = "a", !.path = "$crate::TidAble"]
    ELSE Rejected("no rules expected this token")

\* tid!{ impl<..> TidAble<'a> for .. }: the temp arms sort the parameters
\* into $param and $static_param, the inner arm emits the impl
tid_impl(d) ==
    LET bound == SelectSeq(d.tps, LAMBDA tp : ~tp.static)
        pinned == SelectSeq(d.tps, LAMBDA tp : tp.static)
    IN  IF ~(d.list /\ Len(d.lts) = 1
               /\ \A i \in 1..Len(d.tps) : d.tps[i].default = "none")
        THEN Rejected("no rules expected this token")
        ELSE IF ~trait_supported(d)
        THEN Rejected("wrong trait, should be TidAble or Tid")
        ELSE [NoOut EXCEPT
                !.ok = TRUE,
                !.static = "__TypeIdGenerator",
                !.args = [i \in 1..Len(bound) |-> <<bound[i].id, "Static">>]
                            \o [i \in 1..Len(pinned) |-> <<pinned[i].id, "same">>],
                !.marker = "__TypeIdGenerator",
                !.mparams = [i \in 1..Len(bound) |-> bound[i].id]
                               \o [i \in 1..Len(pinned) |-> pinned[i].id],
                !.lt = d.lts[1],
                !.params = [i \in 1..Len(bound) |->
                               [id |-> bound[i].id, static |-> FALSE, tidable |-> TRUE,
                                default |-> "none"]]
                             \o [i \in 1..Len(pinned) |->
                               [id |-> pinned[i].id, static |-> TRUE, tidable |-> FALSE,
                                default |-> "none"]],
                !.path = "$crate::TidAble"]

\* what the macro emits for a declaration
Emit(d) ==
    CASE d.macro = "derive" -> create_impl(d)
      [] d.macro = "impl_tid" -> impl_tid(d)
      [] d.form = "type" -> type_signature(d)
      [] OTHER -> tid_impl(d)

\* a declaration is written, nothing is expanded yet
MacInit ==
    /\ crate \in Crates
    /\ \E d \in Decls(crate) : mac = [NoMac EXCEPT !.decl = d]
    /\ fp = NoFp
    /\ tq = QuietTags
    /\ obj = NoObj
    /\ h = NoHandle
    /\ res = NoRes

\* the compiler expands the macro
Expand ==
    /\ ~mac.done
    /\ mac' = [mac EXCEPT !.out = Emit(mac.decl), !.done = TRUE]
    /\ UNCHANGED <<fp, crate, tq, obj, h, res>>

MacNext == Expand

MacSpec == MacInit /\ [][MacNext]_vars

\* ------------------------------------------------------------------ pointers
\* better_any::nightly and the Rc / Arc downcasts, on an allocation that
\* other parties share

\* most clones of an Rc / Arc beside the caller's
MaxClones == 1

\* the address of the unit value `&()`
UnitAddr == -1

\* the trait objects: traits with Any as supertrait, and the others
AnySuper == {"dynAny", "dynDebugAny"}

PtrTraits == {"dynAny", "dynDebugAny", "dynDebug", "dynTid", "dynTest"}

TidTraits == {"dynTid", "dynTest"}

Wraps == {"-", "RefCell", "Cell", "Mutex"}

\* the types of the values behind the pointers and of the downcast targets
PtrTypes == UNION {Apply(head, {}) : head \in PlainHeads \cup LtHeads}

\* T: Trait, for the trait of a trait object: Any and DebugAny (blanket impl
\* over Debug + Any) and Debug + 'static take the 'static types, Tid<'a> and
\* Test<'a> the types with TidAble<'a>
Implements(cr, t, tobj, a) ==
    IF tobj \in TidTraits THEN TidAble(cr, t, a) ELSE IsAny(t)

\* the trait object type dyn Trait (+ 'a)
DynType(tobj, a) == Ty(tobj, IF tobj \in TidTraits THEN a ELSE "-", <<>>)

\* <P as IntoRawPtr>::Lifetime
Lifetime(kind, b) ==
    CASE kind \in {"box", "rc", "arc"} -> <<"()">>
      [] kind = "ref" -> <<"&", b, "()">>
      [] OTHER -> <<"&mut", b, "()">>

\* IntoRawPtr::into_raw: the pointer as *const Pointee, address and metadata
into_raw(f) == [f EXCEPT !.kind = "raw", !.borrow = "-"]

\* IntoRawPtr::from_raw of the pointer type with the given kind and borrow
from_raw(kind, b, raw) == [raw EXCEPT !.kind = kind, !.borrow = b, !.live = TRUE]

\* `raw as *const To::Pointee`: the metadata is dropped
thin(raw, t) == [raw EXCEPT !.tobj = "sized", !.vt = NoType, !.vtrait = "-", !.ty = t]

\* `&() as *const () as *const To::Pointee as *const From::Pointee`: the
\* unit's address with the vtable of To::Pointee's tail for From's trait
unit_as(t, raw) == [raw EXCEPT !.addr = UnitAddr, !.vt = t]

\* C24 mutant: the trait object is taken at the data pointer itself
get_trait_object_in_place(raw) == [raw EXCEPT !.wrap = raw.wrap]

\* fn get_callable_trait_object: from_raw_parts(&(), metadata), a pointer
\* to the bare trait object Over with the vtable of ptr
get_callable_trait_object(raw) == [raw EXCEPT !.addr = UnitAddr, !.wrap = "-"]

\* `&*ptr` and a method call on it: what reaching the trait object does to
\* the allocation. A pointer to the unit value reaches no allocation; a
\* trait object inside a Mutex or RefCell is reached by lock() / borrow(),
\* which needs the lock free and holds it during the call
Reach(al, vp) ==
    IF vp.addr = al.addr /\ vp.wrap \in {"Mutex", "RefCell"}
    THEN [al |-> al, done |-> al.lock = "free"]
    ELSE [al |-> al, done |-> TRUE]

\* <Over as Any>::type_id(&self): dynamic dispatch when Any is a supertrait
\* of the trait, else the blanket impl of Any for the type dyn Trait itself
type_id(vp) ==
    IF vp.tobj \in AnySuper THEN TypeIdOf(vp.vt) ELSE TypeIdOf(DynType(vp.tobj, Static))

\* <Over as Tid>::self_id(&self): dynamic dispatch for dyn Tid, else the
\* blanket impl of Tid for the TidAble type dyn Test<'a>
vtable_self_id(cr, vp) ==
    IF vp.tobj = "dynTid" THEN self_id(cr, vp)
    ELSE adjust_id(cr, Ty(TypeIdGenerator(vp.tobj), Static, <<>>))

\* Result<To, From>
Ok(out) == [ok |-> TRUE, out |-> out, back |-> NoPtr]

ErrPtr(back) == [ok |-> FALSE, out |-> NoPtr, back |-> back]

\* the where clauses of downcast_any / downcast_tid (bound: "Any" or "Tid")
\* for From = the type of f and To = the pointer type to
Accepts(cr, bound, f, to) ==
    \* To: IntoRawPtr<Lifetime = From::Lifetime>
    /\ Lifetime(to.kind, to.borrow) = Lifetime(f.kind, f.borrow)
    \* From::Pointee: Pointee + DynMetadataType
    /\ f.tobj \in PtrTraits
    \* To::Pointee: Sized
    /\ IsSized(to.ty)
    \* *const To::Pointee: CoerceUnsized<*const From::Pointee>
    /\ to.wrap = f.wrap
    /\ Implements(cr, to.ty, f.tobj, f.lt)
    \* <From::Pointee as DynMetadataType>::Over: Any, or Tid<'a>
    /\ IF bound = "Any" THEN IsStatic(DynType(f.tobj, f.lt)) ELSE f.tobj \in TidTraits

\* pub fn downcast_any<From, To>(f: From) -> Result<To, From>
downcast_any(f, to) ==
    LET raw == into_raw(f)
        vtable_only_pointer_from == get_callable_trait_object(raw)
        vtable_only_pointer_to == get_callable_trait_object(unit_as(to.ty, raw))
    IN  IF type_id(vtable_only_pointer_from) = type_id(vtable_only_pointer_to)
        THEN Ok(from_raw(to.kind, to.borrow, thin(raw, to.ty)))
        ELSE ErrPtr(from_raw(f.kind, f.borrow, raw))

\* pub fn downcast_tid<'a, From, To>(f: From) -> Result<To, From>
downcast_tid(cr, f, to) ==
    LET raw == into_raw(f)
        vtable_only_pointer_from == get_callable_trait_object(raw)
        vtable_only_pointer_to == get_callable_trait_object(unit_as(to.ty, raw))
    IN  IF vtable_self_id(cr, vtable_only_pointer_from)
              = vtable_self_id(cr, vtable_only_pointer_to)
        THEN Ok(from_raw(to.kind, to.borrow, thin(raw, to.ty)))
        ELSE ErrPtr(from_raw(f.kind, f.borrow, raw))

\* the allocation after the two vtable calls of a nightly downcast, and
\* whether the calls could be made
Calls(al, f, to) ==
    LET raw == into_raw(f)
        one == Reach(al, get_callable_trait_object(raw))
        two == Reach(one.al, get_callable_trait_object(unit_as(to.ty, raw)))
    IN  [al |-> two.al, done |-> one.done /\ two.done]

\* the type Self of an AnyExt call: the pointee type of `this`
SelfType(this) == IF this.tobj = "sized" THEN this.ty ELSE DynType(this.tobj, this.lt)

\* the pointer type Box<Self> / Rc<Self> / Arc<Self>
PointerType(kind, t) ==
    Ty(CASE kind = "box" -> "Box" [] kind = "rc" -> "Rc" [] OTHER -> "Arc", "-", <<t>>)

\* `this.type_id()` in AnyExt: for `this: &Self` and for `(*this)` the method
\* is Any::type_id of Self; for `this: Rc<Self>`, Arc<Self>, Box<Self> the
\* first receiver the method lookup finds is &Rc<Self>, and Rc<Self>: Any by
\* the blanket impl, so the call is Any::type_id of the pointer itself
AnyExt_type_id(this) ==
    IF this.kind \in {"ref", "mut"}
    THEN type_id(this)
    ELSE TypeIdOf(PointerType(this.kind, SelfType(this)))

\* AnyExt::downcast_ref / downcast_mut / downcast_rc / downcast_arc /
\* downcast_box, with Self the pointee type of `this`:
\* this.type_id() == TypeId::of::<T>(), then the pointer cast to T
AnyExt_downcast(this, t) ==
    IF AnyExt_type_id(this) = TypeIdOf(t)
    THEN Ok(from_raw(this.kind, this.borrow, thin(into_raw(this), t)))
    ELSE ErrPtr(this)

\* Option::take: the value, and None left in its place
take(opt) == [value |-> opt.value, left |-> [opt EXCEPT !.some = FALSE]]

\* AnyExt::downcast_move(this: Self) for a sized Self: the temporary
\* Some(this) seen as &mut dyn Any is downcast to Option<T> and emptied;
\* temp is the temporary as the function leaves it to be dropped
AnyExt_downcast_move(this, t) ==
    LET option == [some |-> TRUE, value |-> this]
        temp == [this EXCEPT !.kind = "mut", !.tobj = "dynAny", !.vtrait = "Any",
                             !.vt = Ty("Option", "-", <<this.ty>>), !.ty = NoType]
        r == AnyExt_downcast(temp, Ty("Option", "-", <<t>>))
    IN  IF r.ok
        THEN [ok |-> TRUE, out |-> [take(option).value EXCEPT !.ty = t], back |-> NoPtr,
              temp |-> take(option).left]
        ELSE [ok |-> FALSE, out |-> NoPtr, back |-> NoPtr, temp |-> option]

\* C28 mutant: the count is given up when the pointer is turned raw
Rc_into_raw_released(al) == [al EXCEPT !.strong = @ - 1]

\* Rc::into_raw / Arc::into_raw: the pointer is forgotten, not dropped; its
\* share of the strong count goes with the raw pointer
Rc_into_raw(al) == al

\* Rc::from_raw / Arc::from_raw: the raw pointer's share of the count is
\* taken over, the count is not touched
Rc_from_raw(al) == al

\* the result record of a pointer operation
PResult(op, to, r) ==
    [op |-> op, target |-> to, ok |-> r.ok, out |-> r.out, back |-> r.back,
     done |-> TRUE, temp |-> NoTemp]

\* the call did not return: it waits for the Mutex, or the RefCell's
\* borrow() panicked
Stuck(op, to) == [PResult(op, to, ErrPtr(NoPtr)) EXCEPT !.done = FALSE]

\* the strong count after `from_raw(into_raw(f))` of an Rc / Arc
Rebuilt(al, f) == IF f.kind \in {"rc", "arc"} THEN Rc_from_raw(Rc_into_raw(al)) ELSE al

\* the result and the allocation after a nightly downcast
Nightly(op, al, f, to, r) ==
    IF Calls(al, f, to).done
    THEN [res |-> PResult(op, to, r), al |-> Rebuilt(Calls(al, f, to).al, f)]
    ELSE [res |-> Stuck(op, to), al |-> Calls(al, f, to).al]

\* a downcast target: the thin pointer type To
Target(kind, b, wrap, t) ==
    [NoPtr EXCEPT !.kind = kind, !.borrow = b, !.wrap = wrap, !.tobj = "sized", !.ty = t]

PtrKinds == {"box", "rc", "arc", "ref", "mut"}

\* the targets the caller can name for the pointer f
Targets(f) ==
    {to \in {Target(kind, b, f.wrap, t) :
                kind \in PtrKinds, b \in {"-", Static, "'b"}, t \in PtrTypes} :
        \* a reference type names its borrow, an owner has none
        (to.kind \in {"ref", "mut"}) = (to.borrow # "-")}

\* a pointer to a new value is made and unsized, or (origin "from") made
\* from a Box / & / &mut dyn Any with the From conversions, or (kind "val")
\* the value is held as it is by generic code
PtrInit ==
    /\ crate \in Crates
    /\ tq = QuietTags
    /\ obj = NoObj
    /\ h = NoHandle
    /\ res = NoRes
    /\ mac = NoMac
    /\ \E kind \in PtrKinds \cup {"val"}, tobj \in PtrTraits \cup {"sized"}, wrap \in Wraps,
          t \in PtrTypes, a \in {Static, "'a"}, addr \in Addrs, v \in Vals,
          origin \in {"direct", "from"} :
        LET b == IF kind \in {"ref", "mut"} THEN "'b" ELSE "-"
            lt == IF tobj \in TidTraits THEN a ELSE "-"
            al == [own |-> IF kind \in {"ref", "mut", "val"} THEN "stack" ELSE kind,
                   ty |-> t, wrap |-> wrap, addr |-> addr, val |-> v,
                   strong |-> IF kind \in {"rc", "arc"} THEN 1 ELSE 0,
                   lock |-> "free", freed |-> FALSE]
            fat == IF origin = "from"
                   THEN From(crate, kind, t, a, b, addr)
                   ELSE [Unsize(kind, tobj, t, lt, b, addr) EXCEPT
                            !.vtrait = IF tobj \in TidTraits THEN "Tid" ELSE "Any"]
            p == [kind |-> kind, tobj |-> fat.tobj, vt |-> fat.vt, vtrait |-> fat.vtrait,
                  lt |-> fat.lt, borrow |-> b, addr |-> addr, live |-> TRUE,
                  wrap |-> wrap, ty |-> NoType]
        IN  /\ (kind = "val") = (tobj = "sized")
            /\ tobj = "sized" => (wrap = "-" /\ origin = "direct" /\ IsAny(t) /\ a = Static)
            /\ tobj # "sized" => Implements(crate, t, tobj, a)
            /\ tobj \notin TidTraits => a = Static
            /\ origin = "from" =>
                  (tobj = "dynTid" /\ wrap = "-" /\ kind \in {"box", "ref", "mut"} /\ IsAny(t))
            /\ fp = [NoFp EXCEPT
                        !.al = al,
                        !.p = IF kind = "val" THEN [p EXCEPT !.vt = NoType, !.ty = t] ELSE p]

\* the pointers that own a share of the allocation or borrow it
Holders == {fp.p, fp.res.out, fp.res.back}

\* another party can reach the value: it holds a clone, or the caller's
\* pointer is a shared reference, which is Copy
Shared == fp.clones > 0 \/ \E q \in Holders : q.live /\ q.kind = "ref"

\* Rc::clone / Arc::clone of the caller's pointer, handed to another party
Clone ==
    /\ fp.p.live
    /\ fp.p.kind \in {"rc", "arc"}
    /\ fp.clones < MaxClones
    /\ fp' = [fp EXCEPT !.clones = @ + 1, !.al.strong = @ + 1]
    /\ UNCHANGED <<crate, tq, obj, h, res, mac>>

\* the other party drops its clone
DropClone ==
    /\ fp.clones > 0
    /\ fp.al.lock = "free"
    /\ fp' = [fp EXCEPT !.clones = @ - 1,
                        !.al.strong = @ - 1,
                        !.al.freed = (fp.al.strong = 1)]
    /\ UNCHANGED <<crate, tq, obj, h, res, mac>>

\* the other party takes the Mutex, or borrows the RefCell mutably
Lock ==
    /\ Shared
    /\ fp.al.wrap \in {"Mutex", "RefCell"}
    /\ fp.al.lock = "free"
    /\ ~fp.al.freed
    /\ fp' = [fp EXCEPT !.al.lock = "held"]
    /\ UNCHANGED <<crate, tq, obj, h, res, mac>>

\* the other party writes the value, through its guard or through the Cell
Write ==
    /\ Shared
    /\ ~fp.al.freed
    /\ \/ fp.al.wrap \in {"Mutex", "RefCell"} /\ fp.al.lock = "held"
       \/ fp.al.wrap = "Cell"
    /\ \E v \in Vals \ {fp.al.val} : fp' = [fp EXCEPT !.al.val = v]
    /\ UNCHANGED <<crate, tq, obj, h, res, mac>>

\* the other party drops its guard
Unlock ==
    /\ fp.al.lock = "held"
    /\ fp' = [fp EXCEPT !.al.lock = "free"]
    /\ UNCHANGED <<crate, tq, obj, h, res, mac>>

\* the caller can start an operation on its pointer
PtrReady == fp.p.live /\ fp.res = NoPRes /\ ~fp.al.freed

\* nightly::downcast_any (free function or DowncastExt method)
DowncastAny ==
    /\ crate = "better_any"
    /\ PtrReady
    /\ \E to \in Targets(fp.p) :
        /\ Accepts(crate, "Any", fp.p, to)
        /\ LET n == Nightly("downcast_any", fp.al, fp.p, to, downcast_any(fp.p, to))
           IN  fp' = [fp EXCEPT !.p.live = FALSE, !.al = n.al, !.res = n.res]
    /\ UNCHANGED <<crate, tq, obj, h, res, mac>>

\* nightly::downcast_tid (free function or DowncastExt method)
DowncastTid ==
    /\ crate = "better_any"
    /\ PtrReady
    /\ \E to \in Targets(fp.p) :
        /\ Accepts(crate, "Tid", fp.p, to)
        /\ LET n == Nightly("downcast_tid", fp.al, fp.p, to,
                            downcast_tid(crate, fp.p, to))
           IN  fp' = [fp EXCEPT !.p.live = FALSE, !.al = n.al, !.res = n.res]
    /\ UNCHANGED <<crate, tq, obj, h, res, mac>>

\* TidExt::downcast_rc / downcast_arc on Rc / Arc<dyn Tid<'a>>
DowncastShared ==
    /\ PtrReady
    /\ fp.p.kind \in {"rc", "arc"}
    /\ fp.p.tobj = "dynTid"
    /\ fp.p.wrap = "-"
    /\ \E t \in PtrTypes :
        /\ TidAble(crate, t, fp.p.lt)
        /\ LET to == Target(fp.p.kind, "-", "-", t)
               r == IF fp.p.kind = "rc" THEN downcast_rc(crate, fp.p, t)
                    ELSE downcast_arc(crate, fp.p, t)
               out == from_raw(r.kind, "-", thin(into_raw(fp.p), r.ty))
           IN  fp' = [fp EXCEPT
                        !.p.live = FALSE,
                        !.al = IF r.ok THEN Rebuilt(fp.al, fp.p) ELSE fp.al,
                        !.res = PResult("downcast_" \o fp.p.kind, to,
                                        IF r.ok THEN Ok(out) ELSE ErrPtr(fp.p))]
    /\ UNCHANGED <<crate, tq, obj, h, res, mac>>

\* AnyExt::downcast_ref / downcast_mut / downcast_rc / downcast_arc /
\* downcast_box, called with the pointer as `this`
AnyExtDowncast ==
    /\ crate = "better_any"
    /\ PtrReady
    /\ fp.p.kind \in PtrKinds
    /\ fp.p.wrap = "-"
    \* Self: Any
    /\ IsStatic(DynType(fp.p.tobj, fp.p.lt))
    /\ \E t \in PtrTypes \cup {PointerType(kind, SelfType(fp.p)) : kind \in Owners \ {"val"}} :
        /\ IsAny(t)
        /\ LET to == Target(fp.p.kind, fp.p.borrow, "-", t)
               r == AnyExt_downcast(fp.p, t)
           IN  fp' = [fp EXCEPT
                        !.p.live = FALSE,
                        !.al = IF r.ok THEN Rebuilt(fp.al, fp.p) ELSE fp.al,
                        !.res = PResult("AnyExt::downcast_" \o fp.p.kind, to, r)]
    /\ UNCHANGED <<crate, tq, obj, h, res, mac>>

\* AnyExt::downcast_move(this) in generic code; the temporary is dropped
\* when the function returns, with whatever it still holds
AnyExtDowncastMove ==
    /\ crate = "better_any"
    /\ PtrReady
    /\ fp.p.kind = "val"
    /\ \E t \in PtrTypes :
        /\ IsAny(t)
        /\ LET r == AnyExt_downcast_move(fp.p, t)
           IN  fp' = [fp EXCEPT
                        !.p.live = FALSE,
                        !.al.freed = r.temp.some,
                        !.res = [PResult("AnyExt::downcast_move", Target("val", "-", "-", t), r)
                                    EXCEPT !.temp = r.temp]]
    /\ UNCHANGED <<crate, tq, obj, h, res, mac>>

\* the caller takes the pointer out of Err and goes on with it
TakeBack ==
    /\ fp.res.op # "-"
    /\ fp.res.back.live
    /\ fp' = [fp EXCEPT !.p = fp.res.back, !.res = NoPRes]
    /\ UNCHANGED <<crate, tq, obj, h, res, mac>>

\* the pointer is what its type says: it was made by the owner kind that
\* made the allocation, and a thin pointer's pointee type is the value's
Sound(q) ==
    /\ q.kind \in {"box", "rc", "arc"} => q.kind = fp.al.own
    /\ q.tobj = "sized" => q.ty = fp.al.ty

\* the caller drops a pointer it holds: a Box frees the value, an Rc / Arc
\* gives up its share, a reference ends; dropping an owner that is not Sound
\* is undefined behaviour, the count and the value end up anywhere
DropPtr ==
    /\ \E q \in Holders :
        /\ q.live
        /\ ~fp.al.freed
        /\ fp.al.lock = "free" \/ fp.clones > 0
        /\ \E strong \in 0..(MaxClones + 1), freed \in BOOLEAN :
            /\ (Sound(q) \/ q.kind \in {"ref", "mut"}) =>
                  /\ strong = (IF q.kind \in {"rc", "arc"} THEN fp.al.strong - 1
                               ELSE fp.al.strong)
                  /\ freed = CASE q.kind \in {"rc", "arc"} -> fp.al.strong = 1
                               [] q.kind \in {"box", "val"} -> TRUE
                               [] OTHER -> FALSE
            /\ fp' = [fp EXCEPT
                        !.ub = @ \/ ~(Sound(q) \/ q.kind \in {"ref", "mut"}),
                        !.al.strong = strong,
                        !.al.freed = freed,
                        !.p = IF q = fp.p THEN [q EXCEPT !.live = FALSE] ELSE fp.p,
                        !.res.out = IF q = fp.res.out THEN [q EXCEPT !.live = FALSE]
                                    ELSE fp.res.out,
                        !.res.back = IF q = fp.res.back THEN [q EXCEPT !.live = FALSE]
                                     ELSE fp.res.back]
    /\ UNCHANGED <<crate, tq, obj, h, res, mac>>

\* a tag query by the caller or by another party: Tid::self_id through the
\* pointer, T::id() or typeid_of::<T>() for the type of the value
QueryTag ==
    /\ \E fn \in {"self_id", "id", "typeid_of"} :
        /\ fn = "self_id" =>
              /\ fp.p.live
              /\ fp.p.tobj = "dynTid"
              /\ fp.p.wrap \in {"Mutex", "RefCell"} => fp.al.lock = "free"
              /\ ~fp.al.freed
        /\ fn # "self_id" => \E a \in Lifetimes : TidAble(crate, fp.al.ty, a)
        /\ LET tag == CASE fn = "self_id" -> <<fp.p.vtrait, fp.p.vt, self_id(crate, fp.p)>>
                        [] fn = "id" -> <<"Tid", fp.al.ty, id(crate, fp.al.ty)>>
                        [] OTHER -> <<"Tid", fp.al.ty, typeid_of(crate, fp.al.ty)>>
           IN  /\ tag \notin fp.seen
               /\ fp' = [fp EXCEPT !.seen = @ \cup {tag}]
    /\ UNCHANGED <<crate, tq, obj, h, res, mac>>

PtrNext ==
    \/ Clone
    \/ DropClone
    \/ Lock
    \/ Write
    \/ Unlock
    \/ DowncastAny
    \/ DowncastTid
    \/ DowncastShared
    \/ AnyExtDowncast
    \/ AnyExtDowncastMove
    \/ TakeBack
    \/ DropPtr
    \/ QueryTag

PtrSpec == PtrInit /\ [][PtrNext]_vars

\* ------------------------------------------------------------------ claims

\* C1: two Tid-capable types have the same type id exactly when they are the
\* same type once the lifetime is erased.
TagInjective ==
    tq.done => ((tq.id_t = tq.id_u) <=> (Erase(tq.t) = Erase(tq.u)))

\* C1 witness: two different types that differ in the lifetime only got
\* their ids, and the ids are equal
TagInjectiveWitness ==
    /\ tq.done
    /\ tq.t # tq.u
    /\ Erase(tq.t) = Erase(tq.u)
    /\ tq.id_t = tq.id_u
    /\ tq.id_t # NoId

\* C2: is::<T>() returns true exactly when the handle's self_id equals
\* T::id(), and the call leaves the handle and the value as they were.
IsReturnsTagEquality ==
    [][(res'.op = "is" /\ res' # res) =>
          /\ res'.ok = (self_id(crate, h) = id(crate, res'.target))
          /\ h' = h
          /\ obj' = obj]_vars

\* C2 witness: is::<T>() returned true for a type with a lifetime
IsReturnsTagEqualityWitness ==
    /\ res.op = "is"
    /\ res.ok
    /\ LtOf(res.target) = "'a"
    /\ self_id(crate, h) = id(crate, res.target)

\* the operations of TidExt
DirectOps ==
    {"is", "downcast_ref", "downcast_mut", "downcast_box", "downcast_rc",
     "downcast_arc", "downcast_move"}

\* C3: a value of a Tid type turned directly into a handle has the type id of
\* its type, so is::<T>() and every TidExt downcast to its own type succeed.
Reflexive ==
    obj.origin = "direct" =>
        /\ self_id(crate, h) = id(crate, obj.ty)
        /\ (res.op \in DirectOps /\ res.target = obj.ty) => res.ok

\* C3 witness: a generic value with a lifetime was moved out by downcast_move
\* to its own type
ReflexiveWitness ==
    /\ obj.origin = "direct"
    /\ HeadOf(obj.ty) = "S3"
    /\ res.op = "downcast_move"
    /\ res.target = obj.ty
    /\ res.ok

\* C4: downcast_ref and downcast_mut return Some exactly when the handle's
\* self_id equals T::id(); the reference returned points to the object of the
\* handle, of type T with the same contents, and the handle stays as it was.
DowncastRefMut ==
    [][(res'.op \in {"downcast_ref", "downcast_mut"} /\ res' # res) =>
          /\ res'.ok = (self_id(crate, h) = id(crate, res'.target))
          /\ res'.ok =>
                /\ res'.addr = h.addr
                /\ res'.ty = res'.target
                /\ Read(obj', res'.addr) = Read(obj, h.addr)
                /\ Read(obj', res'.addr) \in Vals
          /\ ~res'.ok => res'.addr = NoAddr
          /\ h' = h
          /\ h'.live
          /\ obj' = obj]_vars

\* C4 witness: downcast_mut through a trait object of a trait with Tid as
\* supertrait returned a reference to the object
DowncastRefMutWitness ==
    /\ res.op = "downcast_mut"
    /\ h.tobj = "dynTrait"
    /\ res.ok
    /\ res.addr = obj.addr
    /\ Read(obj, res.addr) = obj.val

\* the downcasts of TidExt and of dyn Tid
DowncastOps ==
    {"downcast_ref", "downcast_mut", "downcast_box", "downcast_rc", "downcast_arc",
     "downcast_move", "downcast_any_ref", "downcast_any_mut", "downcast_any_box"}

\* the operations that take &self or &mut self
BorrowOps == {"downcast_ref", "downcast_mut", "downcast_any_ref", "downcast_any_mut"}

\* the region the input of a downcast is valid for: the borrow of self for
\* the reference downcasts, 'a of Box/Rc/Arc<dyn Tid<'a> + 'a> for an owning
\* handle, the region of the type of a value passed by value
InputScope(op, hd) ==
    IF op \in BorrowOps THEN SelfBorrow(hd)
    ELSE IF hd.kind = "val" THEN ScopeOf(hd.vt)
    ELSE hd.lt

\* the region the result of a downcast is valid for: &'b T lives for the
\* shorter of 'b and the region of T, an owner of T for the region of T
ResScope(r) ==
    IF r.kind \in {"ref", "mut"} THEN MinLt(r.borrow, ScopeOf(r.ty)) ELSE ScopeOf(r.ty)

AnyOps == {"downcast_any_ref", "downcast_any_mut", "downcast_any_box"}

\* C6: a handle made from a T: Any by From makes downcast_any_ref/mut/box::<T>
\* succeed and the direct downcasts to T fail, also when T is a Tid type.
BridgeSide ==
    (obj.origin = "from" /\ res.target = obj.ty) =>
        /\ res.op \in AnyOps => (res.ok /\ res.ty = obj.ty /\ res.addr = obj.addr)
        /\ res.op \in DirectOps => ~res.ok

\* C6 witness: a Box<S1> (S1 is a Tid type) came in through From and the
\* direct downcast_box::<S1> handed the handle back
BridgeSideWitness ==
    /\ obj.origin = "from"
    /\ obj.ty = Ty("S1", "-", <<>>)
    /\ res.op = "downcast_box"
    /\ res.target = obj.ty
    /\ ~res.ok
    /\ res.back = h

\* C7: a handle made directly from a T that is both Tid and Any makes
\* downcast_any_ref/mut/box::<T> fail and the direct downcasts to T succeed.
DirectSide ==
    (obj.origin = "direct" /\ IsAny(obj.ty) /\ res.target = obj.ty) =>
        /\ res.op \in AnyOps => (~res.ok /\ res.addr = NoAddr)
        /\ res.op \in {"downcast_ref", "downcast_mut", "downcast_box"} =>
              (res.ok /\ res.ty = obj.ty)

\* C7 witness: downcast_any_mut::<T> on a directly made handle of a T
\* returned None
DirectSideWitness ==
    /\ obj.origin = "direct"
    /\ IsAny(obj.ty)
    /\ h.tobj = "dynTid"
    /\ res.op = "downcast_any_mut"
    /\ res.target = obj.ty
    /\ ~res.ok

\* the type id downcast_any_*::<T> compares self_id with: the id of the
\* wrapped type in better_any, TypeId::of::<T>() in better_typeid
any_id(cr, t) ==
    IF cr = "better_any" THEN id(cr, TypeIdAdjuster(t)) ELSE TypeIdOf(t)

\* the Tid types user code can name, for any lifetime
UserTids == [cr \in Crates |-> UNION {TidTypes[cr][a] : a \in Lifetimes}]

\* C8: the self_id of a handle made through From differs from U::id() of
\* every Tid type U user code can name; the id downcast_any_*::<T> compares
\* against differs from the self_id of every directly made handle; and no
\* downcast succeeds for a type other than the type of the value.
UniverseSeparation ==
    /\ obj.origin = "from" =>
          \A u \in UserTids[crate] : self_id(crate, h) # id(crate, u)
    /\ obj.origin = "direct" =>
          \A t \in AnyTypes : any_id(crate, t) # self_id(crate, h)
    /\ (res.ok /\ res.op \in DowncastOps) =>
          (res.target = obj.ty /\ res.ty = obj.ty)

\* C8 witness: a Box<S1>, a Tid type, went through From and
\* downcast_any_ref found it
UniverseSeparationWitness ==
    /\ obj.origin = "from"
    /\ HeadOf(obj.ty) = "Box"
    /\ obj.ty \in UserTids[crate]
    /\ crate = "better_typeid"
    /\ res.op = "downcast_any_ref"
    /\ res.ok

\* C9 as stated: for a type that is both Tid and Any, the id Tid returns
\* differs from TypeId::of::<T>().
TidIdDiffersFromAny ==
    (tq.done /\ tq.any_t # NoId) => tq.id_t # tq.any_t

\* the downcasts that take the owning handle by value and return a Result
ResultOps == {"downcast_box", "downcast_rc", "downcast_arc", "downcast_any_box"}

\* the id operation op compares the handle's self_id with
compared_id(cr, op, t) == IF op \in AnyOps THEN any_id(cr, t) ELSE id(cr, t)

\* C10: when the handle's self_id differs from the id of T, downcast_box,
\* downcast_rc, downcast_arc and downcast_any_box return Err with the handle
\* they were given: same kind, same address, same contents, nothing dropped,
\* and the caller holds it again.
FailedOwnedDowncast ==
    [][(/\ res' # res
        /\ res'.op \in ResultOps
        /\ self_id(crate, h) # compared_id(crate, res'.op, res'.target)) =>
          /\ ~res'.ok
          /\ res'.addr = NoAddr
          /\ res'.back = h
          /\ res'.back.kind = h.kind
          /\ res'.back.addr = h.addr
          /\ h' = h
          /\ h'.live
          /\ obj' = obj
          /\ Read(obj', res'.back.addr) = Read(obj, h.addr)
          /\ Read(obj', res'.back.addr) \in Vals]_vars

\* C10 witness: downcast_arc to another type returned Err with the Arc,
\* which still points to the value
FailedOwnedDowncastWitness ==
    /\ res.op = "downcast_arc"
    /\ ~res.ok
    /\ res.target # obj.ty
    /\ res.back = h
    /\ h.live
    /\ h.kind = "arc"
    /\ Read(obj, h.addr) = obj.val
    /\ obj.drops = 0

\* Box, Rc, Arc: the owning pointers of the owned downcasts
WrapperKinds == {"box", "rc", "arc"}

\* C11: downcast_box, downcast_rc and downcast_arc with target T on a handle
\* made directly from a T return Ok with a pointer of the same kind to the
\* same address, whose pointee is the T with its contents.
SuccessfulOwnedDowncast ==
    [][(/\ res' # res
        /\ res'.op \in {"downcast_box", "downcast_rc", "downcast_arc"}
        /\ obj.origin = "direct"
        /\ res'.target = obj.ty) =>
          /\ res'.ok
          /\ res'.kind = h.kind
          /\ res'.kind \in WrapperKinds
          /\ res'.addr = h.addr
          /\ res'.ty = obj.ty
          /\ obj' = obj
          /\ Read(obj', res'.addr) = Read(obj, h.addr)
          /\ Read(obj', res'.addr) \in Vals]_vars

\* C11 witness: an Rc of a trait object with Tid as supertrait was downcast
\* to an Rc of the value's type at the value's address
SuccessfulOwnedDowncastWitness ==
    /\ res.op = "downcast_rc"
    /\ res.ok
    /\ res.kind = "rc"
    /\ h.kind = "rc"
    /\ h.tobj = "dynTrait"
    /\ res.addr = obj.addr
    /\ res.ty = obj.ty

\* the owners of the value: the live handle (which is also the Err value of
\* a failed attempt) and the Ok value of a successful attempt
OwnerCount ==
    (IF h.live /\ h.kind \in WrapperKinds THEN 1 ELSE 0)
        + (IF res.ok /\ res.kind \in WrapperKinds THEN 1 ELSE 0)

\* C12: through any sequence of downcast_box/rc/arc/any_box attempts the
\* value behind a Box, Rc or Arc has exactly one owner until it is dropped:
\* after an attempt the owner is the Ok value or the handle returned in Err;
\* no attempt runs the destructor; the destructor runs at most once, and
\* only when the one owner is dropped.
OwnershipOnce ==
    /\ [](h.kind \in WrapperKinds =>
            /\ obj.drops \in {0, 1}
            /\ OwnerCount = 1 - obj.drops
            /\ res.op \in ResultOps =>
                  IF res.ok
                  THEN ~h.live /\ res.kind = h.kind /\ res.addr = obj.addr
                  ELSE h.live /\ res.back = h /\ h.addr = obj.addr)
    /\ [][(res' # res /\ res'.op \in ResultOps) => obj' = obj]_vars
    /\ [][(h.kind \in WrapperKinds /\ obj'.drops # obj.drops) =>
              /\ obj.drops = 0
              /\ obj'.drops = 1
              /\ OwnerCount = 1
              /\ OwnerCount' = 0]_vars

\* C12 witness: downcast_any_box succeeded; the handle is gone, the Ok value
\* is the one owner and the value has not been dropped
OwnershipOnceWitness ==
    /\ res.op = "downcast_any_box"
    /\ res.ok
    /\ ~h.live
    /\ OwnerCount = 1
    /\ obj.drops = 0
    /\ res.addr = obj.addr

\* C13: downcast_move::<T> returns Some exactly when the value's self_id
\* equals T::id(); on success the T returned is the value with its contents,
\* the call runs no destructor, and the destructor runs once, when the T
\* returned is dropped.
DowncastMoveOnce ==
    /\ [][(res' # res /\ res'.op = "downcast_move") =>
              /\ h.kind = "val"
              /\ res'.ok = (self_id(crate, h) = id(crate, res'.target))
              /\ res'.ok =>
                    /\ res'.kind = "val"
                    /\ res'.ty = res'.target
                    /\ res'.ty = obj.ty
                    /\ obj' = obj
                    /\ obj'.drops = 0
                    /\ Read(obj', res'.addr) = obj.val
                    /\ ~h'.live]_vars
    /\ [][(res.op = "downcast_move" /\ res.ok /\ res' # res) =>
              (obj.drops = 0 /\ obj'.drops = 1)]_vars
    /\ []((res.op = "downcast_move" /\ res.ok) => (obj.drops = 0 /\ ~h.live))
    /\ [](h.kind = "val" => obj.drops \in {0, 1})

\* C13 witness: a Box held by generic code was moved out by downcast_move,
\* with its contents, and no destructor has run
DowncastMoveOnceWitness ==
    /\ res.op = "downcast_move"
    /\ res.ok
    /\ HeadOf(res.ty) = "Box"
    /\ Read(obj, res.addr) = obj.val
    /\ obj.drops = 0
    /\ ~h.live

\* C14 as stated: every downcast whose ids differ changes nothing and leaves
\* the input with the caller: the reference forms return None, the owning
\* forms, downcast_move included, hand the input back.
FailureGivesInputBack ==
    [][(res' # res /\ res'.op \in DowncastOps /\ ~res'.ok) =>
          /\ obj' = obj
          /\ h' = h
          /\ h'.live
          /\ res'.addr = NoAddr
          /\ h.kind \in Owners => (res'.op \in BorrowOps \/ res'.back = h)]_vars

NominalFresh ==
    tq.done =>
        /\ HeadOf(tq.t) # HeadOf(tq.u) => tq.id_t # tq.id_u
        /\ (\E i \in 1..Len(ArgsOf(tq.t)) : ArgsOf(tq.t)[i] = tq.u) => tq.id_t # tq.id_u

\* C17 witness: Option<S1> and the user generic S4<S1> take the same
\* argument and have different ids
NominalFreshWitness ==
    /\ tq.done
    /\ tq.t = Ty("Option", "-", <<Ty("S1", "-", <<>>)>>)
    /\ tq.u = Ty("S4", "-", <<Ty("S1", "-", <<>>)>>)
    /\ tq.id_t # tq.id_u
    /\ tq.id_t # NoId
    /\ tq.id_u # NoId

\* the opt-in paths that take a type or a declaration of a type: tid!(..),
\* type_id!(..), derive(Tid) and impl_tid
NamedPaths(d) ==
    /\ d.macro \in {"type_id", "derive", "impl_tid"} \/ d.form = "type"
    /\ d.form = "impl" => d.trait \in {"Tid", "TidAble"}

\* C18 as stated: for a type with no generic parameters every opt-in path
\* emits Static = the type itself and declares no marker struct (impl
\* headers with two lifetimes, which are rejected, left aside).
StaticIsSelfForPlainType ==
    (/\ mac.done
     /\ mac.decl.shape = "bare"
     /\ NamedPaths(mac.decl)
     /\ lifetime_count(mac.decl) <= 1) =>
        /\ mac.out.ok
        /\ mac.out.static = "Self"
        /\ mac.out.marker = "none"

\* C18 amended: when the item handed to the macro has no generics list
\* (tid!(S), type_id!(S), derive on `struct S`, impl_tid on an impl header
\* without <..>), Static is the type itself, with no arguments, and no marker
\* struct is declared.
StaticIsSelfWithoutList ==
    (mac.done /\ ~mac.decl.list /\ NamedPaths(mac.decl)) =>
        /\ mac.out.ok
        /\ mac.out.static = "Self"
        /\ mac.out.args = <<>>
        /\ mac.out.marker = "none"
        /\ mac.out.mparams = <<>>
        /\ mac.out.params = <<>>

\* C18 witness: derive(Tid) on `struct Sa;` emitted Static = Sa
StaticIsSelfWithoutListWitness ==
    /\ mac.done
    /\ mac.decl.macro = "derive"
    /\ mac.decl.name = "Sa"
    /\ ~mac.decl.list
    /\ mac.out.ok
    /\ mac.out.static = "Self"

\* C19: in every implementation emitted by derive(Tid), impl_tid or the impl
\* form of tid!, a type parameter with an inline 'static bound is passed to
\* the marker struct as itself and gets no TidAble bound; every other type
\* parameter P is passed as P::Static and gets P: TidAble<'a>; each
\* parameter is passed exactly once.
PinnedParameters ==
    LET d == mac.decl
        o == mac.out
    IN  (mac.done /\ o.ok /\ d.list /\ d.form \in {"struct", "impl"}) =>
            /\ Len(o.args) = Len(d.tps)
            /\ Len(o.params) = Len(d.tps)
            /\ Len(o.mparams) = Len(d.tps)
            /\ \A i \in 1..Len(d.tps) :
                  LET P == d.tps[i].id
                      how == IF d.tps[i].static THEN "same" ELSE "Static"
                  IN  /\ \E j \in 1..Len(o.args) : o.args[j] = <<P, how>>
                      /\ \E j \in 1..Len(o.mparams) : o.mparams[j] = P
                      /\ \E j \in 1..Len(o.params) :
                            /\ o.params[j].id = P
                            /\ o.params[j].tidable = ~d.tps[i].static
                            /\ o.params[j].static = d.tps[i].static

\* C19 witness: derive(Tid) on S<'a, T, X: 'static> passed T::Static and X
PinnedParametersWitness ==
    /\ mac.done
    /\ mac.decl.macro = "derive"
    /\ mac.decl.lts = <<"a">>
    /\ Len(mac.decl.tps) = 2
    /\ ~mac.decl.tps[1].static
    /\ mac.decl.tps[2].static
    /\ mac.out.ok
    /\ mac.out.args = <<(<<"T", "Static">>), (<<"X", "same">>)>>

\* the declaration with the defaults of its type parameters taken away
WithoutDefaults(d) ==
    [d EXCEPT !.tps = [i \in 1..Len(d.tps) |-> [d.tps[i] EXCEPT !.default = "none"]]]

\* C20: for a declaration with defaults on type parameters, the impl that
\* derive(Tid) / impl_tid emit has no default on any parameter, and
\* everything emitted (Static, its arguments, the marker struct) is what the
\* same declaration without defaults gives, so a tag depends on the
\* arguments of an instantiation only.
DefaultsRemoved ==
    LET d == mac.decl
    IN  (/\ mac.done
         /\ d.macro \in {"derive", "impl_tid"}
         /\ \E i \in 1..Len(d.tps) : d.tps[i].default # "none") =>
            /\ \A j \in 1..Len(mac.out.params) : mac.out.params[j].default = "none"
            /\ mac.out = Emit(WithoutDefaults(d))
            /\ \A j \in 1..Len(mac.out.args) :
                  \E i \in 1..Len(d.tps) : mac.out.args[j][1] = d.tps[i].id

\* C20 witness: derive(Tid) on S<'a, T = S1> emitted an impl over T, with
\* Static = __SaT_should_never_exist<T::Static>
DefaultsRemovedWitness ==
    /\ mac.done
    /\ mac.decl.macro = "derive"
    /\ mac.decl.name = "S"
    /\ mac.decl.lts = <<"a">>
    /\ Len(mac.decl.tps) = 1
    /\ mac.decl.tps[1].default = "S1"
    /\ mac.out.ok
    /\ mac.out.static = "__SaT_should_never_exist"
    /\ mac.out.args = <<(<<"T", "Static">>)>>
    /\ mac.out.params[1].default = "none"

\* an implementation, a Static type or a marker struct came out
Emitted(out) ==
    \/ out.ok
    \/ out.static # NoOut.static
    \/ out.marker # NoOut.marker
    \/ out.path # NoOut.path

\* what tid!/type_id! can match: a bare name, a name with one lifetime, or an
\* impl header with exactly one lifetime and no defaulted parameter
MacroRulesMatch(d) ==
    \/ ~d.list /\ d.form = "type"
    \/ /\ Len(d.lts) = 1
       /\ d.form = "type" => d.tps = <<>>
       /\ \A i \in 1..Len(d.tps) : d.tps[i].default = "none"

\* the item is a type, a struct, or an impl header of Tid or TidAble
ForTid(d) == d.form = "impl" => d.trait \in {"Tid", "TidAble"}

\* an item the language accepts as written: a type, a struct, or an impl
\* header of Tid or TidAble with a generics list and no defaulted parameter
WellFormed(d) ==
    /\ ForTid(d)
    /\ d.form = "impl" => (d.list /\ \A i \in 1..Len(d.tps) : d.tps[i].default = "none")

MarkerDecls(cr) ==
    {d \in Decls(cr) : d.macro \in {"derive", "impl_tid"} /\ Emit(d).ok
                        /\ Emit(d).marker # "none"}

\* C22: the marker struct name is unique per declaration: two declarations
\* of distinct types (types of different names, such as S<'a, T> and Sa<T>)
\* handed to derive(Tid) or impl_tid get different marker names.
MarkerNameUnique ==
    (mac.done /\ mac.decl \in MarkerDecls(crate)) =>
        \A d \in MarkerDecls(crate) :
            d.name # mac.decl.name => Emit(d).marker # mac.out.marker

Unsupported(d) ==
    \/ Len(d.lts) > 1
    \/ d.form = "impl" /\ d.trait \notin {"Tid", "TidAble"}
    \/ d.macro \in {"tid", "type_id"} /\ ~MacroRulesMatch(d)

PtrDowncasts ==
    {"downcast_any", "downcast_tid", "downcast_rc", "downcast_arc"}

\* C24: a downcast through a shared owner or through a Mutex / RefCell
\* (downcast_rc, downcast_arc, nightly downcast_any and downcast_tid) takes
\* no interior lock: it returns whether or not another party holds the
\* Mutex or the RefCell borrow, with the result it gives when nobody does,
\* and it leaves the lock state, the contents and the strong count as they
\* were.
NoInteriorLock ==
    [][(fp.res.op = "-" /\ fp'.res.op \in PtrDowncasts) =>
          LET to == fp'.res.target
              unlocked == [fp.al EXCEPT !.lock = "free"]
              alone == IF fp'.res.op = "downcast_any"
                       THEN Nightly("downcast_any", unlocked, fp.p, to,
                                    downcast_any(fp.p, to)).res
                       ELSE Nightly("downcast_tid", unlocked, fp.p, to,
                                    downcast_tid(crate, fp.p, to)).res
          IN  /\ fp'.res.done
              /\ fp'.al = fp.al
              /\ fp'.clones = fp.clones
              /\ fp'.res.op \in {"downcast_any", "downcast_tid"} => fp'.res = alone
              /\ fp'.res.ok => fp'.res.out.addr = fp.al.addr
              /\ ~fp'.res.ok => fp'.res.back = fp.p]_vars

\* C24 witness: an Arc<Mutex<dyn Any>> was downcast to Arc<Mutex<S1>> with
\* downcast_any while the other clone's holder has the Mutex locked
NoInteriorLockWitness ==
    /\ fp.res.op = "downcast_any"
    /\ fp.res.ok
    /\ fp.res.out.kind = "arc"
    /\ fp.res.out.wrap = "Mutex"
    /\ fp.res.out.ty = Ty("S1", "-", <<>>)
    /\ fp.p.tobj = "dynAny"
    /\ fp.clones = 1
    /\ fp.al.lock = "held"
    /\ fp.al.strong = 2

\* the tag queries answered so far agree: one vtable and type, one id
TagsAgree(seen) ==
    \A e1 \in seen, e2 \in seen : (e1[1] = e2[1] /\ e1[2] = e2[2]) => e1[3] = e2[3]

\* the step is a tag query, or a downcast of a pointer
TagQueryStep == fp'.seen # fp.seen

PtrDowncastStep == fp.res.op = "-" /\ fp'.res.op \in PtrDowncasts

\* C25: tags are immutable and need no coordination: whatever was written to
\* the value, locked, cloned, dropped or downcast before, every answer of
\* self_id, id and typeid_of for one type is the same id, the id of the type;
\* and no tag query and no downcast writes the shared allocation (contents,
\* lock, count), nor does a downcast change the tags.
TagsImmutable ==
    [][/\ TagsAgree(fp'.seen)
       /\ \A e \in fp'.seen : e[1] = "Tid" => e[3] = typeid_of(crate, e[2])
       /\ TagQueryStep => (fp'.al = fp.al /\ fp'.clones = fp.clones)
       /\ PtrDowncastStep => (fp'.al = fp.al /\ fp'.clones = fp.clones
                                 /\ fp'.seen = fp.seen)]_vars

\* C25 witness: the type was queried through the pointer and by name, after
\* another party wrote the value while holding the lock, with a clone alive
TagsImmutableWitness ==
    /\ Cardinality(fp.seen) = 1
    /\ \E e \in fp.seen : e[1] = "Tid" /\ e[2] = fp.al.ty /\ e[3] = id(crate, fp.al.ty)
    /\ fp.p.tobj = "dynTid"
    /\ fp.p.live
    /\ fp.al.val # 0
    /\ fp.al.lock = "held"
    /\ fp.clones = 1

NightlyOps == {"downcast_any", "downcast_tid"}

\* C26: a nightly downcast_any / downcast_tid that returned gave Ok exactly
\* when the concrete type behind the vtable of f is the pointee type of the
\* target; the Ok pointer has that type and addresses the data of f, wrapper
\* included, and Err holds f as it was given.
NightlyExact ==
    (fp.res.op \in NightlyOps /\ fp.res.done) =>
        /\ fp.res.ok <=> (fp.p.vt = fp.res.target.ty)
        /\ fp.res.ok =>
              /\ fp.res.out.addr = fp.al.addr
              /\ fp.res.out.wrap = fp.p.wrap
              /\ fp.res.out.ty = fp.res.target.ty
        /\ ~fp.res.ok => [fp.res.back EXCEPT !.live = TRUE] = [fp.p EXCEPT !.live = TRUE]

\* C26, for the trait objects whose trait has Any or Tid as a supertrait
NightlyExactWithSupertrait ==
    (\/ fp.p.tobj \in AnySuper
     \/ fp.p.tobj = "dynTid" /\ fp.res.op = "downcast_tid") => NightlyExact

\* C27: a nightly downcast that the bounds accept rebuilds the raw pointer
\* with the from_raw of the kind it was taken from: Box to Box, Rc to Rc,
\* Arc to Arc, & to & and &mut to &mut, with the same borrow.
SameKindRebuilt ==
    (fp.res.op \in NightlyOps /\ fp.res.done /\ fp.res.ok) =>
        /\ fp.res.out.kind = fp.p.kind
        /\ fp.res.out.borrow = fp.p.borrow

\* C27, for the references: the Lifetime of & and &mut names the kind
SameKindReferences ==
    (fp.res.op \in NightlyOps /\ fp.res.done /\ fp.res.ok) =>
        /\ fp.p.kind \in {"ref", "mut"} => fp.res.out.kind = fp.p.kind
        /\ fp.res.out.kind \in {"ref", "mut"} => fp.res.out.kind = fp.p.kind
        /\ fp.res.out.borrow = fp.p.borrow

RcOps == {"downcast_rc", "downcast_arc", "AnyExt::downcast_rc", "AnyExt::downcast_arc"}

\* the step is a downcast of an Rc / Arc to an Rc / Arc: TidExt or AnyExt
\* downcast_rc / downcast_arc, or a nightly downcast between the same kinds
RcDowncastStep ==
    /\ fp.res.op = "-"
    /\ fp.p.kind \in {"rc", "arc"}
    /\ \/ fp'.res.op \in RcOps
       \/ fp'.res.op \in NightlyOps /\ fp'.res.target.kind = fp.p.kind

\* the owners of the Rc / Arc allocation: the caller's live pointers of the
\* allocation's kind, and the clones of the other parties
RcOwners == Cardinality({q \in Holders : q.live /\ q.kind = fp.al.own}) + fp.clones

\* every pointer the caller holds has the kind of the allocation, and none
\* that was not what its type says has been dropped
RcOnly == fp.al.own \in {"rc", "arc"} /\ ~fp.ub /\ \A q \in Holders : q.live => q.kind = fp.al.own

\* C28: downcast_rc / downcast_arc leave the strong count as it was, on
\* success and on failure and with clones alive; the result of a success is
\* an owner of the same allocation as the clones, a failure gives the pointer
\* back; the count is the number of owners and the pointee is freed exactly
\* when the last owner was dropped.
StrongCountKept ==
    [][/\ RcDowncastStep =>
            /\ fp'.al.strong = fp.al.strong
            /\ fp'.al.freed = fp.al.freed
            /\ fp'.clones = fp.clones
            /\ fp'.res.ok => (fp'.res.out.live /\ fp'.res.out.addr = fp.al.addr
                                 /\ fp'.res.out.kind = fp.p.kind)
            /\ ~fp'.res.ok => fp'.res.back = fp.p
       /\ RcOnly' => (fp'.al.strong = RcOwners' /\ fp'.al.freed = (RcOwners' = 0))]_vars

\* C28 witness: downcast_rc succeeded while a clone was alive, the result was
\* dropped, and the value is still there for the clone
StrongCountKeptWitness ==
    /\ fp.res.op = "downcast_rc"
    /\ fp.res.ok
    /\ ~fp.res.out.live
    /\ fp.clones = 1
    /\ fp.al.strong = 1
    /\ ~fp.al.freed
    /\ ~fp.ub

AnyExtOps ==
    {"AnyExt::downcast_ref", "AnyExt::downcast_mut", "AnyExt::downcast_rc",
     "AnyExt::downcast_arc", "AnyExt::downcast_box"}

\* what is asked of AnyExt's pointer downcasts: success exactly when the
\* value behind `this` has type T, the result the same object and of type T,
\* a failure the pointer given
AnyExtPointerExact ==
    fp.res.op \in AnyExtOps =>
        /\ fp.res.ok <=> (fp.p.vt = fp.res.target.ty)
        /\ fp.res.ok =>
              /\ fp.res.out.addr = fp.al.addr
              /\ fp.res.out.kind = fp.p.kind
              /\ fp.res.out.ty = fp.al.ty
        /\ ~fp.res.ok => [fp.res.back EXCEPT !.live = TRUE] = [fp.p EXCEPT !.live = TRUE]

\* what is asked of AnyExt::downcast_move: Some exactly when Self and T are
\* one type, with the value moved out of the temporary Option
AnyExtMoveExact ==
    fp.res.op = "AnyExt::downcast_move" =>
        /\ fp.res.ok <=> (fp.al.ty = fp.res.target.ty)
        /\ fp.res.ok =>
              /\ fp.res.out.addr = fp.al.addr
              /\ fp.res.out.ty = fp.al.ty
              /\ ~fp.res.temp.some

\* C29: AnyExt's downcast_ref, downcast_mut, downcast_rc, downcast_arc and
\* downcast_box succeed exactly when the type of the value behind `this` is
\* T, returning the same object, and give `this` back otherwise;
\* downcast_move returns Some with the moved value exactly when Self is T,
\* and the value is never both returned and left in the temporary Option.
\* Stated for `this` a value or a trait object with Any as supertrait, where
\* Any::type_id of Self answers for the value behind `this`.
AnyExtExact ==
    /\ fp.p.tobj \in AnySuper => AnyExtPointerExact
    /\ AnyExtMoveExact

\* C29, for downcast_ref, downcast_mut and downcast_move on a value or a
\* trait object with Any as supertrait; for other trait objects, no success
AnyExtExactByReference ==
    /\ (fp.res.op \in {"AnyExt::downcast_ref", "AnyExt::downcast_mut"}
            /\ fp.p.tobj \in AnySuper) => AnyExtPointerExact
    /\ (fp.res.op \in {"AnyExt::downcast_ref", "AnyExt::downcast_mut"}
            /\ fp.p.tobj \notin AnySuper) => ~fp.res.ok
    /\ AnyExtMoveExact

\* the operations both crates have
SharedOps ==
    {"downcast_ref", "downcast_mut", "downcast_box", "downcast_rc", "downcast_arc",
     "downcast_any_ref", "downcast_any_mut"}

OtherCrate(cr) == IF cr = "better_any" THEN "better_typeid" ELSE "better_any"

\* the handle the other crate makes from the same value in the same way
HandleIn(cr) ==
    IF obj.origin = "from"
    THEN [From(cr, h.kind, obj.ty, h.lt, h.borrow, h.addr) EXCEPT !.live = h.live]
    ELSE h

\* whether the operation succeeds in crate cr on the handle hd
Succeeds(op, cr, hd, t) ==
    CASE op = "downcast_ref" -> downcast_ref(cr, hd, SelfBorrow(hd), t).ok
      [] op = "downcast_mut" -> downcast_mut(cr, hd, SelfBorrow(hd), t).ok
      [] op = "downcast_box" -> downcast_box(cr, hd, t).ok
      [] op = "downcast_rc" -> downcast_rc(cr, hd, t).ok
      [] op = "downcast_arc" -> downcast_arc(cr, hd, t).ok
      [] op = "downcast_any_ref" -> downcast_any_ref(cr, hd, SelfBorrow(hd), t).ok
      [] OTHER -> downcast_any_mut(cr, hd, SelfBorrow(hd), t).ok

\* the value and the target can be written in the other crate as well
InBothCrates ==
    LET other == OtherCrate(crate)
    IN  /\ obj.origin = "direct" => obj.ty \in TidTypes[other][h.lt]
        /\ res.op \notin {"downcast_any_ref", "downcast_any_mut"} =>
              res.target \in TidTypes[other][h.lt]

\* C30: better_any and better_typeid agree on the operations they share: a
\* downcast_ref, downcast_mut, downcast_box, downcast_rc, downcast_arc,
\* downcast_any_ref or downcast_any_mut made in one crate, on a direct or a
\* bridge handle, succeeds exactly when the same call on the handle made the
\* same way from the same value succeeds in the other crate.
VariantsAgree ==
    (res.op \in SharedOps /\ InBothCrates) =>
        /\ res.ok = Succeeds(res.op, crate, HandleIn(crate), res.target)
        /\ res.ok = Succeeds(res.op, OtherCrate(crate), HandleIn(OtherCrate(crate)), res.target)

\* C30 witness: a bridge handle made in better_typeid was downcast with
\* downcast_any_ref to the type of the value, which also succeeds on the
\* bridge handle better_any makes, whose vtable is another one
VariantsAgreeWitness ==
    /\ crate = "better_typeid"
    /\ obj.origin = "from"
    /\ res.op = "downcast_any_ref"
    /\ res.ok
    /\ res.target = obj.ty
    /\ HandleIn("better_any").vt # h.vt
    /\ InBothCrates

====
